---- MODULE Spec2Model ----
(***************************************************************************)
(* A model of req's Client (src/client.go): the configuration store with   *)
(* its chained setters, Clone, the request execution pipeline Client.do,   *)
(* the redirect policies, isPayloadForbid and setRequestURL.               *)
(*                                                                         *)
(* Go values with reference semantics are modelled as references into      *)
(* heaps: a map (http.Header, url.Values, map[string]string) is an index   *)
(* into `maps`, a slice is a header (arr, len, cap) over a backing array   *)
(* in `arrays`, a *Client is an index into `clients`; likewise the         *)
(* *Transport, the *DumpOptions and the cookie jar.  0 is nil.             *)
(***************************************************************************)
EXTENDS Integers, Sequences, FiniteSets, TLC

VARIABLES
    clients,     \* heap of Client structs, indexed by *Client
    httpClients, \* heap of http.Client structs, indexed by *http.Client
    maps,        \* heap of Go maps: each a function Keys -> sequence of values
    arrays,      \* heap of backing arrays of slices
    transports,  \* heap of Transport structs, indexed by *Transport
    dumpOpts,    \* heap of DumpOptions structs, indexed by *DumpOptions
    jars,        \* heap of cookie jars: each the set of cookies stored in it
    defaultClient, \* the package variable defaultClient, a *Client
    cookieObjs,  \* heap of http.Cookie structs, indexed by *http.Cookie: the Value of each
    requests,    \* heap of Request structs, indexed by *Request
    calls,       \* the executions of Client.do, each with its position and locals
    ops,         \* number of API calls made so far (bounds the exploration)
    budget,      \* the number of API calls the exploration allows
    lastOp,      \* history: the last API call, [name |-> ..., c |-> receiver]
    parent,      \* history: parent[d] is the client d was cloned from (0: from C())
    userReq,     \* history: userReq[c], the request stages registered on c, in order
    userResp     \* history: userResp[c], the response stages registered on c, in order

heapVars == <<clients, httpClients, maps, arrays, transports, dumpOpts, jars, defaultClient,
             cookieObjs>>
histVars == <<ops, budget, lastOp, parent, userReq, userResp>>
callVars == <<requests, calls>>
vars == <<heapVars, histVars, callVars>>

----------------------------------------------------------------------------
(* Bounds of the exploration *)

MaxOps == 3
MaxClients == 2

(* Inputs *)

Keys == {"X-A", "X-B"}
RawKeys == {"x-a", "X-B"}
Vals == {"1", "2"}
UserStages == {"u1", "u2"}

NIL == 0

----------------------------------------------------------------------------
(* Go maps *)

\* make(http.Header), make(urlpkg.Values), urlpkg.Values{}
EmptyMap == [k \in Keys |-> <<>>]

\* textproto.CanonicalMIMEHeaderKey, used by http.Header.Set/Add/Get
CanonicalHeaderKey(k) ==
    IF k = "x-a" THEN "X-A" ELSE IF k = "x-b" THEN "X-B" ELSE k

\* url.Values.Set: replaces the values of key
ValuesSet(m, k, v) == [m EXCEPT ![k] = <<v>>]

\* url.Values.Add: appends to the values of key
ValuesAdd(m, k, v) == [m EXCEPT ![k] = Append(@, v)]

\* http.Header.Set: canonicalises the key, replaces its values
HeaderSet(m, k, v) == ValuesSet(m, CanonicalHeaderKey(k), v)

\* the value of a map reference; a nil map reads as empty
MapVal(ms, ref) == IF ref = NIL THEN EmptyMap ELSE ms[ref]

----------------------------------------------------------------------------
(* Go slices *)

NilSlice == [arr |-> NIL, len |-> 0, cap |-> 0]

\* the elements s[0:len(s)]
Elems(as, s) == IF s.arr = NIL THEN <<>> ELSE SubSeq(as[s.arr], 1, s.len)

\* runtime.roundupsize for 8-byte elements (size classes 8,16,24,32,48,64,...)
RoundUpCap(n) == IF n <= 4 THEN n ELSE n + (n % 2)

\* runtime.growslice: the capacity of the array append allocates
GrowCap(oldCap, needed) ==
    RoundUpCap(IF needed > 2 * oldCap THEN needed ELSE 2 * oldCap)

Zeros(n) == [i \in 1..n |-> "nil"]

\* append(s, xs...): writes in place while the capacity lasts, else moves
\* the elements to a new backing array.  Returns the new heap and header.
GoAppend(as, s, xs) ==
    IF Len(xs) = 0 THEN [arrays |-> as, slice |-> s]
    ELSE IF s.len + Len(xs) <= s.cap
    THEN [arrays |-> [as EXCEPT ![s.arr] =
                        [i \in 1..s.cap |->
                            IF i > s.len /\ i <= s.len + Len(xs)
                            THEN xs[i - s.len] ELSE @[i]]],
          slice  |-> [s EXCEPT !.len = s.len + Len(xs)]]
    ELSE LET n == GrowCap(s.cap, s.len + Len(xs))
             a == Elems(as, s) \o xs \o Zeros(n - s.len - Len(xs))
         IN [arrays |-> Append(as, a),
             slice  |-> [arr |-> Len(as) + 1, len |-> s.len + Len(xs), cap |-> n]]

----------------------------------------------------------------------------
(* The program state the setters act on, as one value *)

Heap == [clients |-> clients, httpClients |-> httpClients,
         maps |-> maps, arrays |-> arrays,
         transports |-> transports, dumpOpts |-> dumpOpts, jars |-> jars,
         defaultClient |-> defaultClient, cookieObjs |-> cookieObjs]

\* the built-in stages C() installs
BuiltinRequestStages ==
    <<"parseRequestURL", "parseRequestHeader", "parseRequestCookie", "parseRequestBody">>
BuiltinResponseStages == <<"parseResponseBody", "handleDownload">>

\* C(): a new client with a new transport, cookie jar and http client.  Its
\* two stage lists are slice literals (len = cap); the http client's
\* CheckRedirect is the method value c.defaultCheckRedirect.
NewClient(st) ==
    LET c  == Len(st.clients) + 1
        hc == Len(st.httpClients) + 1
        a  == Len(st.arrays)
        t  == Len(st.transports) + 1
        j  == Len(st.jars) + 1
    IN [st EXCEPT
        !.clients = Append(st.clients,
            [BaseURL |-> <<>>, PathParams |-> NIL, QueryParams |-> NIL,
             Headers |-> NIL, Cookies |-> NilSlice, FormData |-> NIL,
             DebugLog |-> FALSE, AllowGetMethodPayload |-> FALSE,
             trace |-> FALSE, outputDirectory |-> "",
             disableAutoReadResponse |-> FALSE, scheme |-> <<>>,
             jsonMarshal |-> "json.Marshal", jsonUnmarshal |-> "json.Unmarshal",
             xmlMarshal |-> "xml.Marshal", xmlUnmarshal |-> "xml.Unmarshal",
             log |-> "defaultLogger", t |-> t, dumpOptions |-> NIL,
             httpClient |-> hc,
             beforeRequest |-> [arr |-> a + 1, len |-> 4, cap |-> 4],
             udBeforeRequest |-> NilSlice,
             afterResponse |-> [arr |-> a + 2, len |-> 2, cap |-> 2]]),
        !.httpClients = Append(st.httpClients,
            [Transport |-> t, Jar |-> j, Timeout |-> "2m",
             CheckRedirect |-> [kind |-> "default", c |-> c, policies |-> <<>>]]),
        !.transports = Append(st.transports,
            [Proxy |-> <<"ProxyFromEnvironment">>, TLSClientConfig |-> <<>>,
             DisableKeepAlives |-> FALSE, DisableCompression |-> FALSE,
             dump |-> <<>>, dumpers |-> 0]),
        !.jars = Append(st.jars, {}),
        !.arrays = st.arrays \o <<BuiltinRequestStages, BuiltinResponseStages>>]

\* the cookies a caller makes, named as the pointers to them; a cookie
\* list of a client is a list of these pointers
CookiePtrs == {"ck1", "ck2", "ck3"}

\* before `var defaultClient *Client = C()`
EmptyHeap == [clients |-> <<>>, httpClients |-> <<>>, maps |-> <<>>, arrays |-> <<>>,
              transports |-> <<>>, dumpOpts |-> <<>>, jars |-> <<>>,
              defaultClient |-> NIL, cookieObjs |-> [p \in CookiePtrs |-> ""]]

----------------------------------------------------------------------------
(* Setters of the collection fields, as functions of the program state *)

\* c.<field> made non-nil: `if c.F == nil { c.F = make(...) }`
EnsureMap(st, c, field) ==
    IF st.clients[c][field] # NIL THEN st
    ELSE [st EXCEPT !.maps = Append(@, EmptyMap),
                    !.clients[c][field] = Len(st.maps) + 1]

SetCommonHeaderOn(st, c, key, value) ==
    LET s1 == EnsureMap(st, c, "Headers")
    IN [s1 EXCEPT !.maps[s1.clients[c].Headers] = HeaderSet(@, key, value)]

SetCommonQueryParamOn(st, c, key, value) ==
    LET s1 == EnsureMap(st, c, "QueryParams")
    IN [s1 EXCEPT !.maps[s1.clients[c].QueryParams] = ValuesSet(@, key, value)]

\* `for k, v := range m { f(k, v) }` over a map[string]string argument: the
\* keys of an argument are distinct, so the iteration order does not matter.
RECURSIVE RangeStrMap(_, _, _, _)
RangeStrMap(st, c, m, setter) ==
    IF DOMAIN m = {} THEN st
    ELSE LET k == CHOOSE x \in DOMAIN m : TRUE
             rest == [x \in DOMAIN m \ {k} |-> m[x]]
             s1 == IF setter = "header" THEN SetCommonHeaderOn(st, c, k, m[k])
                   ELSE IF setter = "query" THEN SetCommonQueryParamOn(st, c, k, m[k])
                   ELSE [st EXCEPT !.maps[st.clients[c].FormData] = ValuesSet(@, k, m[k])]
         IN RangeStrMap(s1, c, rest, setter)

SetCommonHeadersOn(st, c, hdrs) == RangeStrMap(st, c, hdrs, "header")

SetCommonQueryParamsOn(st, c, params) == RangeStrMap(st, c, params, "query")

SetCommonFormDataOn(st, c, data) ==
    RangeStrMap(EnsureMap(st, c, "FormData"), c, data, "form")

\* `for _, v := range vs { m.Add(k, v) }`
RECURSIVE AddAll(_, _, _)
AddAll(m, k, vs) ==
    IF vs = <<>> THEN m ELSE AddAll(ValuesAdd(m, k, Head(vs)), k, Tail(vs))

\* `for k, vs := range data { for _, v := range vs { m.Add(k, v) } }`
RECURSIVE AddValues(_, _, _)
AddValues(m, data, ks) ==
    IF ks = {} THEN m
    ELSE LET k == CHOOSE x \in ks : TRUE
         IN AddValues(AddAll(m, k, data[k]), data, ks \ {k})

SetCommonFormDataFromValuesOn(st, c, data) ==
    LET s1 == EnsureMap(st, c, "FormData")
    IN [s1 EXCEPT !.maps[s1.clients[c].FormData] = AddValues(@, data, Keys)]

\* urlpkg.ParseQuery of a query string given as its "&"-separated segments,
\* each a <<key, value>> pair or "bad" (a malformed escape or a semicolon):
\* every well-formed pair is added, and the first malformed one is the error.
RECURSIVE ParseQuery(_)
ParseQuery(query) ==
    IF query = <<>> THEN [values |-> EmptyMap, err |-> FALSE]
    ELSE LET rest == ParseQuery(Tail(query))
             seg  == Head(query)
         IN IF seg = <<"bad">> THEN [rest EXCEPT !.err = TRUE]
            ELSE [rest EXCEPT !.values[seg[1]] = <<seg[2]>> \o @]

SetCommonQueryStringOn(st, c, query) ==
    LET p == ParseQuery(query)
    IN IF ~p.err
       THEN LET s1 == EnsureMap(st, c, "QueryParams")
            IN [s1 EXCEPT !.maps[s1.clients[c].QueryParams] =
                              AddValues(@, p.values, Keys)]
       ELSE st

SetCommonCookiesOn(st, c, cookies) ==
    LET r == GoAppend(st.arrays, st.clients[c].Cookies, cookies)
    IN [st EXCEPT !.arrays = r.arrays, !.clients[c].Cookies = r.slice]

\* a mutation of OnBeforeRequest: the stage is appended to the built-in list
OnBeforeRequestOnBuiltinList(st, c, m) ==
    LET r == GoAppend(st.arrays, st.clients[c].beforeRequest, <<m>>)
    IN [st EXCEPT !.arrays = r.arrays, !.clients[c].beforeRequest = r.slice]

OnBeforeRequestOn(st, c, m) ==
    LET r == GoAppend(st.arrays, st.clients[c].udBeforeRequest, <<m>>)
    IN [st EXCEPT !.arrays = r.arrays, !.clients[c].udBeforeRequest = r.slice]

OnAfterResponseOn(st, c, m) ==
    LET r == GoAppend(st.arrays, st.clients[c].afterResponse, <<m>>)
    IN [st EXCEPT !.arrays = r.arrays, !.clients[c].afterResponse = r.slice]

EnableAllowGetMethodPayloadOn(st, c, a) ==
    [st EXCEPT !.clients[c].AllowGetMethodPayload = a]

DisableAutoReadResponseOn(st, c, disable) ==
    [st EXCEPT !.clients[c].disableAutoReadResponse = disable]

----------------------------------------------------------------------------
(* Clone and its helpers.  Each helper returns the heap it leaves and the  *)
(* reference (or slice header) it returns.                                 *)

\* a mutation of cloneHeaders: the header map is returned as it is
cloneHeadersShared(ms, hdrs) == [maps |-> ms, ref |-> hdrs]

\* cloneHeaders: nil for nil, else a new map with every value re-added
cloneHeaders(ms, hdrs) ==
    IF hdrs = NIL THEN [maps |-> ms, ref |-> NIL]
    ELSE [maps |-> Append(ms, AddValues(EmptyMap, ms[hdrs], Keys)),
          ref  |-> Len(ms) + 1]

\* cloneUrlValues: nil for nil, else a new map with every value re-added
cloneUrlValues(ms, v) ==
    IF v = NIL THEN [maps |-> ms, ref |-> NIL]
    ELSE [maps |-> Append(ms, AddValues(EmptyMap, ms[v], Keys)),
          ref  |-> Len(ms) + 1]

\* cloneMap: nil for nil, else a new map with every entry copied
cloneMap(ms, h) ==
    IF h = NIL THEN [maps |-> ms, ref |-> NIL]
    ELSE [maps |-> Append(ms, [k \in Keys |-> ms[h][k]]), ref |-> Len(ms) + 1]

\* cloneCookies, cloneRequestMiddleware, cloneResponseMiddleware: nil for an
\* empty slice, else make([]T, len) and copy: a new array with cap = len
cloneSlice(as, s) ==
    IF s.len = 0 THEN [arrays |-> as, slice |-> NilSlice]
    ELSE [arrays |-> Append(as, Elems(as, s)),
          slice  |-> [arr |-> Len(as) + 1, len |-> s.len, cap |-> s.len]]

cloneCookies(as, cookies) == cloneSlice(as, cookies)

cloneRequestMiddleware(as, m) == cloneSlice(as, m)

cloneResponseMiddleware(as, m) == cloneSlice(as, m)

\* DumpOptions.Clone: nil for nil, else a copy of the struct; the Output it
\* names is the same writer
CloneDumpOptions(ds, o) ==
    IF o = NIL THEN [dumpOpts |-> ds, ref |-> NIL]
    ELSE [dumpOpts |-> Append(ds, ds[o]), ref |-> Len(ds) + 1]

\* t.EnableDump(opt): a new dumper over opt is attached and started.  As
\* history, `dumpers` counts the dumpers the transport has had, and a
\* dumper carries its number.
StartDumper(t, opt) ==
    [t EXCEPT !.dump = <<[DumpOptions |-> opt, id |-> t.dumpers + 1]>>,
              !.dumpers = @ + 1]

\* Transport.Clone: a copy of the transport with its own TLS config and,
\* when a dumper is attached, its own dumper over a copy of its options
TransportClone(st, t) ==
    LET old == st.transports[t]
        d   == IF old.dump = <<>> THEN [dumpOpts |-> st.dumpOpts, ref |-> NIL]
               ELSE CloneDumpOptions(st.dumpOpts, old.dump[1].DumpOptions)
    IN [st EXCEPT
        !.transports = Append(st.transports,
            IF old.dump = <<>> THEN [old EXCEPT !.dumpers = 0]
            ELSE StartDumper([old EXCEPT !.dumpers = 0], d.ref)),
        !.dumpOpts = d.dumpOpts]

\* Client.Clone (first definition): `cc := *c` copies every field, then the
\* transport is cloned, the http client is copied by value (its Jar and
\* CheckRedirect with it) and the collections are cloned.
CloneOn(st0, c) ==
    LET st  == TransportClone(st0, st0.clients[c].t)
        t   == Len(st.transports)
        old == st.clients[c]
        hc  == Len(st.httpClients) + 1
        do  == CloneDumpOptions(st.dumpOpts, old.dumpOptions)
        h   == cloneHeaders(st.maps, old.Headers)
        pp  == cloneMap(h.maps, old.PathParams)
        qp  == cloneUrlValues(pp.maps, old.QueryParams)
        fd  == cloneUrlValues(qp.maps, old.FormData)
        ck  == cloneCookies(st.arrays, old.Cookies)
        br  == cloneRequestMiddleware(ck.arrays, old.beforeRequest)
        ud  == cloneRequestMiddleware(br.arrays, old.udBeforeRequest)
        ar  == cloneResponseMiddleware(ud.arrays, old.afterResponse)
    IN [st EXCEPT
        !.clients = Append(st.clients,
            [old EXCEPT !.httpClient = hc, !.t = t,
                        !.Headers = h.ref, !.Cookies = ck.slice,
                        !.PathParams = pp.ref, !.QueryParams = qp.ref,
                        !.FormData = fd.ref, !.beforeRequest = br.slice,
                        !.udBeforeRequest = ud.slice, !.afterResponse = ar.slice,
                        !.dumpOptions = do.ref]),
        !.httpClients = Append(st.httpClients,
            [st.httpClients[old.httpClient] EXCEPT !.Transport = t]),
        !.dumpOpts = do.dumpOpts,
        !.maps = fd.maps,
        !.arrays = ar.arrays]

\* Client.Clone (second definition): a struct literal naming the fields it
\* carries over; every field it does not name has its zero value, and the
\* two request stage lists are carried over as the same slices.
Clone2On(st0, c) ==
    LET st  == TransportClone(st0, st0.clients[c].t)
        t   == Len(st.transports)
        old == st.clients[c]
        hc  == Len(st.httpClients) + 1
        do  == CloneDumpOptions(st.dumpOpts, old.dumpOptions)
        h   == cloneHeaders(st.maps, old.Headers)
        pp  == cloneMap(h.maps, old.PathParams)
        qp  == cloneUrlValues(pp.maps, old.QueryParams)
    IN [st EXCEPT
        !.clients = Append(st.clients,
            [BaseURL |-> old.BaseURL, PathParams |-> pp.ref, QueryParams |-> qp.ref,
             Headers |-> h.ref, Cookies |-> NilSlice, FormData |-> NIL,
             DebugLog |-> FALSE, AllowGetMethodPayload |-> FALSE,
             trace |-> FALSE, outputDirectory |-> "",
             disableAutoReadResponse |-> old.disableAutoReadResponse,
             scheme |-> old.scheme,
             jsonMarshal |-> "", jsonUnmarshal |-> "",
             xmlMarshal |-> "", xmlUnmarshal |-> "",
             log |-> old.log, t |-> t, dumpOptions |-> do.ref,
             httpClient |-> hc,
             beforeRequest |-> old.beforeRequest,
             udBeforeRequest |-> old.udBeforeRequest,
             afterResponse |-> NilSlice]),
        !.httpClients = Append(st.httpClients,
            [st.httpClients[old.httpClient] EXCEPT !.Transport = t]),
        !.dumpOpts = do.dumpOpts,
        !.maps = qp.maps]

----------------------------------------------------------------------------
(* Arguments the calls are made with *)

\* map[string]string arguments over the keys K
StrMaps(K) == UNION {[S -> Vals] : S \in SUBSET K}

HeaderArgs == {m \in StrMaps(RawKeys) : Cardinality(DOMAIN m) # 1}
ParamArgs == {m \in StrMaps(Keys) : Cardinality(DOMAIN m) # 1}

\* urlpkg.Values arguments: one key with one or two values
ValuesArgs ==
    {[k \in Keys |-> IF k = key THEN vs ELSE <<>>] :
        key \in Keys, vs \in {<<"1">>, <<"2", "1">>}}

\* query strings, as their segments
QueryArgs == {<<>>, << <<"bad">> >>, << <<"X-A", "1">> >>,
              << <<"X-A", "2">>, <<"X-B", "1">> >>, << <<"X-B", "2">>, <<"bad">> >>}

\* cookie lists
CookieArgs == {<<>>, <<"ck1">>, <<"ck2", "ck1">>}

----------------------------------------------------------------------------
(* The calls, as actions *)

Allocated == 1..Len(clients)

Store(st) ==
    /\ clients' = st.clients
    /\ httpClients' = st.httpClients
    /\ maps' = st.maps
    /\ arrays' = st.arrays
    /\ transports' = st.transports
    /\ dumpOpts' = st.dumpOpts
    /\ jars' = st.jars
    /\ defaultClient' = st.defaultClient
    /\ cookieObjs' = st.cookieObjs

\* no execution of do is under way
NoCallInFlight == \A k \in 1..Len(calls) : calls[k].pc = "return"

\* a call of the method `name` on c.  A setter writes fields that do reads
\* without synchronisation, so it is called only while no do is under way.
Called(name, c) ==
    /\ ops < budget
    /\ NoCallInFlight
    /\ ops' = ops + 1
    /\ lastOp' = [name |-> name, c |-> c]

SetCommonHeader(c, key, value) ==
    /\ Called("SetCommonHeader", c)
    /\ Store(SetCommonHeaderOn(Heap, c, key, value))
    /\ UNCHANGED <<budget, parent, userReq, userResp, callVars>>

SetCommonHeaders(c, hdrs) ==
    /\ Called("SetCommonHeaders", c)
    /\ Store(SetCommonHeadersOn(Heap, c, hdrs))
    /\ UNCHANGED <<budget, parent, userReq, userResp, callVars>>

SetCommonQueryParam(c, key, value) ==
    /\ Called("SetCommonQueryParam", c)
    /\ Store(SetCommonQueryParamOn(Heap, c, key, value))
    /\ UNCHANGED <<budget, parent, userReq, userResp, callVars>>

SetCommonQueryParams(c, params) ==
    /\ Called("SetCommonQueryParams", c)
    /\ Store(SetCommonQueryParamsOn(Heap, c, params))
    /\ UNCHANGED <<budget, parent, userReq, userResp, callVars>>

SetCommonQueryString(c, query) ==
    /\ Called("SetCommonQueryString", c)
    /\ Store(SetCommonQueryStringOn(Heap, c, query))
    /\ UNCHANGED <<budget, parent, userReq, userResp, callVars>>

SetCommonFormData(c, data) ==
    /\ Called("SetCommonFormData", c)
    /\ Store(SetCommonFormDataOn(Heap, c, data))
    /\ UNCHANGED <<budget, parent, userReq, userResp, callVars>>

SetCommonFormDataFromValues(c, data) ==
    /\ Called("SetCommonFormDataFromValues", c)
    /\ Store(SetCommonFormDataFromValuesOn(Heap, c, data))
    /\ UNCHANGED <<budget, parent, userReq, userResp, callVars>>

SetCommonCookies(c, cookies) ==
    /\ Called("SetCommonCookies", c)
    /\ Store(SetCommonCookiesOn(Heap, c, cookies))
    /\ UNCHANGED <<budget, parent, userReq, userResp, callVars>>

CloneWithin(c, max) ==
    /\ Len(clients) < max
    /\ Called("Clone", c)
    /\ Store(CloneOn(Heap, c))
    /\ parent' = Append(parent, c)
    /\ userReq' = Append(userReq, userReq[c])
    /\ userResp' = Append(userResp, userResp[c])
    /\ UNCHANGED <<budget, callVars>>

Clone(c) == CloneWithin(c, MaxClients)

Clone2(c) ==
    /\ Len(clients) < MaxClients
    /\ Called("Clone2", c)
    /\ Store(Clone2On(Heap, c))
    /\ parent' = Append(parent, c)
    /\ userReq' = Append(userReq, userReq[c])
    /\ userResp' = Append(userResp, userResp[c])
    /\ UNCHANGED <<budget, callVars>>

OnBeforeRequest(c, m) ==
    /\ Called("OnBeforeRequest", c)
    /\ Store(OnBeforeRequestOn(Heap, c, m))
    /\ userReq' = [userReq EXCEPT ![c] = Append(@, m)]
    /\ UNCHANGED <<budget, parent, userResp, callVars>>

OnAfterResponse(c, m) ==
    /\ Called("OnAfterResponse", c)
    /\ Store(OnAfterResponseOn(Heap, c, m))
    /\ userResp' = [userResp EXCEPT ![c] = Append(@, m)]
    /\ UNCHANGED <<budget, parent, userReq, callVars>>

EnableAllowGetMethodPayload(c, a) ==
    /\ Called("EnableAllowGetMethodPayload", c)
    /\ Store(EnableAllowGetMethodPayloadOn(Heap, c, a))
    /\ UNCHANGED <<budget, parent, userReq, userResp, callVars>>

DisableAutoReadResponse(c, disable) ==
    /\ Called("DisableAutoReadResponse", c)
    /\ Store(DisableAutoReadResponseOn(Heap, c, disable))
    /\ UNCHANGED <<budget, parent, userReq, userResp, callVars>>

----------------------------------------------------------------------------
(* URLs.  A URL string is given by its host, a string of the characters    *)
(* below, and by whether the rest of it parses.                            *)

HostChars == {"h", "8", ":", "[", "]"}

Digits == {"8"}

\* strings.LastIndex(s, ch), 1-based; 0 when ch does not occur in s
LastIndex(s, ch) ==
    IF \E i \in 1..Len(s) : s[i] = ch
    THEN CHOOSE i \in 1..Len(s) : s[i] = ch /\ \A j \in (i+1)..Len(s) : s[j] # ch
    ELSE 0

\* net/url validOptionalPort: "" or ":" followed by digits
validOptionalPort(port) ==
    \/ port = <<>>
    \/ /\ port[1] = ":"
       /\ \A i \in 2..Len(port) : port[i] \in Digits

\* net/url parseHost: the port after a bracketed literal, or after the last
\* colon, must be a valid optional port
parseHostOK(host) ==
    IF host # <<>> /\ host[1] = "["
    THEN /\ LastIndex(host, "]") # 0
         /\ validOptionalPort(SubSeq(host, LastIndex(host, "]") + 1, Len(host)))
    ELSE \/ LastIndex(host, ":") = 0
         \/ validOptionalPort(SubSeq(host, LastIndex(host, ":"), Len(host)))

\* urlpkg.Parse(url): the URL with its Host, or an error
Parse(url) ==
    IF url.wellFormed /\ parseHostOK(url.host)
    THEN [err |-> FALSE, Host |-> url.host]
    ELSE [err |-> TRUE, Host |-> <<>>]

\* hasPort: whether the host ends in a port segment
hasPort(host) == LastIndex(host, ":") > LastIndex(host, "]")

\* removeEmptyPort: strips the empty port ":" from the host
removeEmptyPort(host) ==
    IF hasPort(host) /\ host[Len(host)] = ":"
    THEN SubSeq(host, 1, Len(host) - 1)
    ELSE host

\* a mutation of setRequestURL: r.Host is taken from the URL as parsed
setRequestURLHostAsParsed(raw, url) ==
    LET u == Parse(url)
    IN IF u.err THEN [raw |-> raw, err |-> TRUE]
       ELSE [raw |-> [raw EXCEPT !.URL = <<removeEmptyPort(u.Host)>>,
                                 !.Host = u.Host],
             err |-> FALSE]

\* setRequestURL(r, url): r.URL (a pointer: <<>> is nil, <<h>> a URL with
\* Host h) and r.Host are set from the parsed url; a parse error is returned
\* with r untouched
setRequestURL(raw, url) ==
    LET u == Parse(url)
    IN IF u.err THEN [raw |-> raw, err |-> TRUE]
       ELSE [raw |-> [raw EXCEPT !.URL = <<removeEmptyPort(u.Host)>>,
                                 !.Host = removeEmptyPort(u.Host)],
             err |-> FALSE]

DefaultURL == [wellFormed |-> TRUE, host |-> <<"h">>]

----------------------------------------------------------------------------
(* Setters of the scalar fields.  A string is the sequence of its          *)
(* characters.                                                             *)

RECURSIVE TrimRight(_, _)
TrimRight(str, ch) ==
    IF str # <<>> /\ str[Len(str)] = ch THEN TrimRight(SubSeq(str, 1, Len(str) - 1), ch)
    ELSE str

RECURSIVE TrimLeft(_, _)
TrimLeft(str, ch) ==
    IF str # <<>> /\ Head(str) = ch THEN TrimLeft(Tail(str), ch) ELSE str

TrimSpace(str) == TrimLeft(TrimRight(str, " "), " ")

SetBaseURLOn(st, c, u) == [st EXCEPT !.clients[c].BaseURL = TrimRight(u, "/")]

SetSchemeOn(st, c, scheme) ==
    IF TrimSpace(scheme) # <<>> THEN [st EXCEPT !.clients[c].scheme = TrimSpace(scheme)]
    ELSE st

SetOutputDirectoryOn(st, c, dir) == [st EXCEPT !.clients[c].outputDirectory = dir]

EnableDebugLogOn(st, c, enable) == [st EXCEPT !.clients[c].DebugLog = enable]

EnableTraceAllOn(st, c, enable) == [st EXCEPT !.clients[c].trace = enable]

SetJsonMarshalOn(st, c, fn) == [st EXCEPT !.clients[c].jsonMarshal = fn]

SetLoggerOn(st, c, log) ==
    [st EXCEPT !.clients[c].log = IF log = "" THEN "disableLogger" ELSE log]

----------------------------------------------------------------------------
(* Setters of the transport and of the http client *)

SetTimeoutOn(st, c, d) ==
    [st EXCEPT !.httpClients[st.clients[c].httpClient].Timeout = d]

\* SetCookieJar(jar): jar is nil (<<>>) or the caller's new cookie jar
SetCookieJarOn(st, c, jar) ==
    IF jar = <<>> THEN [st EXCEPT !.httpClients[st.clients[c].httpClient].Jar = NIL]
    ELSE [st EXCEPT !.jars = Append(@, jar[1]),
                    !.httpClients[st.clients[c].httpClient].Jar = Len(st.jars) + 1]

SetProxyOn(st, c, proxy) == [st EXCEPT !.transports[st.clients[c].t].Proxy = proxy]

DisableKeepAlivesOn(st, c, disable) ==
    [st EXCEPT !.transports[st.clients[c].t].DisableKeepAlives = disable]

\* SetProxyURL: a URL that does not parse is logged and the client returned
SetProxyURLOn(st, c, proxyUrl) ==
    LET u == Parse(proxyUrl)
    IN IF u.err THEN st
       ELSE [st EXCEPT !.transports[st.clients[c].t].Proxy = <<"ProxyURL", u.Host>>]

\* c.tlsConfig(): the transport's TLS config, made when there is none
tlsConfig(st, c) ==
    IF st.transports[st.clients[c].t].TLSClientConfig = <<>>
    THEN [st EXCEPT !.transports[st.clients[c].t].TLSClientConfig =
                        <<[Certificates |-> <<>>, RootCAs |-> <<>>]>>]
    ELSE st

\* SetCerts(certs...)
SetCertsOn(st, c, certs) ==
    [tlsConfig(st, c) EXCEPT
        !.transports[st.clients[c].t].TLSClientConfig[1].Certificates = @ \o certs]

\* SetCertFromFile: file is what tls.LoadX509KeyPair finds: the pair loads
\* (ok) as cert, or the load fails
SetCertFromFileOn(st, c, file) ==
    IF ~file.ok THEN st ELSE SetCertsOn(st, c, <<file.cert>>)

\* appendRootCertData(data): data is PEM text, given by the set of
\* certificates AppendCertsFromPEM finds in it (none in text that is no PEM)
appendRootCertData(st, c, data) ==
    LET s1 == tlsConfig(st, c)
        t  == st.clients[c].t
        s2 == IF s1.transports[t].TLSClientConfig[1].RootCAs = <<>>
              THEN [s1 EXCEPT !.transports[t].TLSClientConfig[1].RootCAs = <<{}>>]
              ELSE s1
    IN [s2 EXCEPT !.transports[t].TLSClientConfig[1].RootCAs[1] = @ \cup data]

SetRootCertFromStringOn(st, c, pemContent) == appendRootCertData(st, c, pemContent)

\* SetRootCertsFromFile(pemFiles...): each file is readable with its PEM
\* text, or not; the first unreadable file ends the call
RECURSIVE SetRootCertsFromFileOn(_, _, _)
SetRootCertsFromFileOn(st, c, pemFiles) ==
    IF pemFiles = <<>> THEN st
    ELSE IF ~Head(pemFiles).ok THEN st
    ELSE SetRootCertsFromFileOn(appendRootCertData(st, c, Head(pemFiles).data),
                                c, Tail(pemFiles))

----------------------------------------------------------------------------
(* Dump *)

\* newDefaultDumpOptions(): everything is dumped, to the standard output
newDefaultDumpOptions ==
    [Output |-> "os.Stdout", RequestHeader |-> TRUE, RequestBody |-> TRUE,
     ResponseHeader |-> TRUE, ResponseBody |-> TRUE, Async |-> FALSE]

\* c.getDumpOptions(): the client's DumpOptions, made when there is none
getDumpOptions(st, c) ==
    IF st.clients[c].dumpOptions = NIL
    THEN [st EXCEPT !.dumpOpts = Append(@, newDefaultDumpOptions),
                    !.clients[c].dumpOptions = Len(st.dumpOpts) + 1]
    ELSE st

\* a mutation of enableDump: a dumper is started whether or not one runs
enableDumpAlways(st, c) ==
    LET s1 == getDumpOptions(st, c)
    IN [s1 EXCEPT !.transports[st.clients[c].t] =
                      StartDumper(@, s1.clients[c].dumpOptions)]

\* c.enableDump(): nothing when a dumper runs; else t.EnableDump starts one
\* over the client's DumpOptions
enableDump(st, c) ==
    IF st.transports[st.clients[c].t].dump # <<>> THEN st
    ELSE LET s1 == getDumpOptions(st, c)
         IN [s1 EXCEPT !.transports[st.clients[c].t] =
                           StartDumper(@, s1.clients[c].dumpOptions)]

\* EnableDump(enable): t.DisableDump() stops and detaches the dumper
EnableDumpOn(st, c, enable) ==
    IF ~enable THEN [st EXCEPT !.transports[st.clients[c].t].dump = <<>>]
    ELSE enableDump(st, c)

\* the fields of the client's DumpOptions are set as `fields` says, then
\* enableDump: the shape of EnableDumpTo, EnableDumpAsync and the presets
SetDumpFields(st, c, fields) ==
    LET s1 == getDumpOptions(st, c)
        o  == s1.clients[c].dumpOptions
    IN enableDump([s1 EXCEPT !.dumpOpts[o] =
                      [f \in DOMAIN @ |-> IF f \in DOMAIN fields THEN fields[f] ELSE @[f]]],
                  c)

\* EnableDumpToFile: file is what os.Create gives: the file, or an error
EnableDumpToFileOn(st, c, file) ==
    IF ~file.ok THEN st ELSE SetDumpFields(st, c, [Output |-> file.name])

\* EnableDumpToFile (second definition): the output is set, and no dumper
\* is started
EnableDumpToFile2On(st, c, file) ==
    IF ~file.ok THEN st
    ELSE LET s1 == getDumpOptions(st, c)
         IN [s1 EXCEPT !.dumpOpts[s1.clients[c].dumpOptions].Output = file.name]

EnableDumpToOn(st, c, output) == SetDumpFields(st, c, [Output |-> output])

EnableDumpAsyncOn(st, c) == SetDumpFields(st, c, [Async |-> TRUE])

Preset(reqH, reqB, respH, respB) ==
    [RequestHeader |-> reqH, RequestBody |-> reqB,
     ResponseHeader |-> respH, ResponseBody |-> respB]

EnableDumpNoRequestBodyOn(st, c) == SetDumpFields(st, c, Preset(TRUE, FALSE, TRUE, TRUE))

EnableDumpNoResponseBodyOn(st, c) == SetDumpFields(st, c, Preset(TRUE, TRUE, TRUE, FALSE))

EnableDumpOnlyResponseOn(st, c) == SetDumpFields(st, c, Preset(FALSE, FALSE, TRUE, TRUE))

EnableDumpOnlyRequestOn(st, c) == SetDumpFields(st, c, Preset(TRUE, TRUE, FALSE, FALSE))

EnableDumpOnlyBodyOn(st, c) == SetDumpFields(st, c, Preset(FALSE, TRUE, FALSE, TRUE))

EnableDumpOnlyHeaderOn(st, c) == SetDumpFields(st, c, Preset(TRUE, FALSE, TRUE, FALSE))

EnableDumpAllOn(st, c) == SetDumpFields(st, c, Preset(TRUE, TRUE, TRUE, TRUE))

\* SetDumpOptions(opt): opt is nil (<<>>) or the caller's new DumpOptions;
\* a running dumper is pointed at it too
SetDumpOptionsOn(st, c, opt) ==
    IF opt = <<>> THEN st
    ELSE LET o  == Len(st.dumpOpts) + 1
             s1 == [st EXCEPT !.dumpOpts = Append(@, opt[1]),
                              !.clients[c].dumpOptions = o]
         IN IF st.transports[st.clients[c].t].dump # <<>>
            THEN [s1 EXCEPT !.transports[st.clients[c].t].dump[1].DumpOptions = o]
            ELSE s1

----------------------------------------------------------------------------
(* Calls of setters, given by name and argument, and what a caller can     *)
(* observe of a client: every field, with what it references.              *)

View(st, c) ==
    LET cl == st.clients[c]
        t  == st.transports[cl.t]
        hc == st.httpClients[cl.httpClient]
    IN [BaseURL |-> cl.BaseURL, scheme |-> cl.scheme, DebugLog |-> cl.DebugLog,
        AllowGetMethodPayload |-> cl.AllowGetMethodPayload, trace |-> cl.trace,
        outputDirectory |-> cl.outputDirectory,
        disableAutoReadResponse |-> cl.disableAutoReadResponse,
        jsonMarshal |-> cl.jsonMarshal, jsonUnmarshal |-> cl.jsonUnmarshal,
        xmlMarshal |-> cl.xmlMarshal, xmlUnmarshal |-> cl.xmlUnmarshal,
        log |-> cl.log,
        Headers     |-> <<cl.Headers = NIL, MapVal(st.maps, cl.Headers)>>,
        QueryParams |-> <<cl.QueryParams = NIL, MapVal(st.maps, cl.QueryParams)>>,
        PathParams  |-> <<cl.PathParams = NIL, MapVal(st.maps, cl.PathParams)>>,
        FormData    |-> <<cl.FormData = NIL, MapVal(st.maps, cl.FormData)>>,
        Cookies     |-> Elems(st.arrays, cl.Cookies),
        beforeRequest   |-> Elems(st.arrays, cl.beforeRequest),
        udBeforeRequest |-> Elems(st.arrays, cl.udBeforeRequest),
        afterResponse   |-> Elems(st.arrays, cl.afterResponse),
        dumpOptions |-> IF cl.dumpOptions = NIL THEN <<>> ELSE <<st.dumpOpts[cl.dumpOptions]>>,
        Proxy |-> t.Proxy, TLSClientConfig |-> t.TLSClientConfig,
        DisableKeepAlives |-> t.DisableKeepAlives,
        dump |-> IF t.dump = <<>> THEN <<>>
                 ELSE <<[options |-> st.dumpOpts[t.dump[1].DumpOptions],
                         ofClient |-> t.dump[1].DumpOptions = cl.dumpOptions,
                         id |-> t.dump[1].id]>>,
        Timeout |-> hc.Timeout,
        Jar |-> IF hc.Jar = NIL THEN <<>> ELSE <<st.jars[hc.Jar]>>,
        CheckRedirect |-> hc.CheckRedirect]

\* the setter `call.name` applied to c with the argument `call.arg`
Apply(st, c, call) ==
    CASE call.name = "SetProxyURL" -> SetProxyURLOn(st, c, call.arg)
      [] call.name = "SetCommonQueryString" -> SetCommonQueryStringOn(st, c, call.arg)
      [] call.name = "SetCertFromFile" -> SetCertFromFileOn(st, c, call.arg)
      [] call.name = "SetRootCertsFromFile" -> SetRootCertsFromFileOn(st, c, call.arg)
      [] call.name = "SetRootCertFromString" -> SetRootCertFromStringOn(st, c, call.arg)
      [] call.name = "EnableDumpToFile" -> EnableDumpToFileOn(st, c, call.arg)
      [] call.name = "EnableDumpToFile2" -> EnableDumpToFile2On(st, c, call.arg)
      [] call.name = "SetBaseURL" -> SetBaseURLOn(st, c, call.arg)
      [] call.name = "SetScheme" -> SetSchemeOn(st, c, call.arg)
      [] call.name = "SetOutputDirectory" -> SetOutputDirectoryOn(st, c, call.arg)
      [] call.name = "EnableDebugLog" -> EnableDebugLogOn(st, c, call.arg)
      [] call.name = "EnableTraceAll" -> EnableTraceAllOn(st, c, call.arg)
      [] call.name = "EnableAllowGetMethodPayload" ->
             EnableAllowGetMethodPayloadOn(st, c, call.arg)
      [] call.name = "DisableAutoReadResponse" -> DisableAutoReadResponseOn(st, c, call.arg)
      [] call.name = "SetJsonMarshal" -> SetJsonMarshalOn(st, c, call.arg)
      [] call.name = "SetLogger" -> SetLoggerOn(st, c, call.arg)
      [] call.name = "SetTimeout" -> SetTimeoutOn(st, c, call.arg)
      [] call.name = "SetCookieJar" -> SetCookieJarOn(st, c, call.arg)
      [] call.name = "SetProxy" -> SetProxyOn(st, c, call.arg)
      [] call.name = "DisableKeepAlives" -> DisableKeepAlivesOn(st, c, call.arg)
      [] call.name = "SetCerts" -> SetCertsOn(st, c, call.arg)
      [] call.name = "SetCommonHeader" -> SetCommonHeaderOn(st, c, call.arg[1], call.arg[2])
      [] call.name = "SetCommonHeaders" -> SetCommonHeadersOn(st, c, call.arg)
      [] call.name = "SetCommonQueryParam" ->
             SetCommonQueryParamOn(st, c, call.arg[1], call.arg[2])
      [] call.name = "SetCommonQueryParams" -> SetCommonQueryParamsOn(st, c, call.arg)
      [] call.name = "SetCommonFormData" -> SetCommonFormDataOn(st, c, call.arg)
      [] call.name = "SetCommonFormDataFromValues" ->
             SetCommonFormDataFromValuesOn(st, c, call.arg)
      [] call.name = "SetCommonCookies" -> SetCommonCookiesOn(st, c, call.arg)
      [] call.name = "OnBeforeRequest" -> OnBeforeRequestOn(st, c, call.arg)
      [] call.name = "OnAfterResponse" -> OnAfterResponseOn(st, c, call.arg)
      [] call.name = "EnableDump" -> EnableDumpOn(st, c, call.arg)
      [] call.name = "EnableDumpTo" -> EnableDumpToOn(st, c, call.arg)
      [] call.name = "EnableDumpAsync" -> EnableDumpAsyncOn(st, c)
      [] call.name = "EnableDumpNoRequestBody" -> EnableDumpNoRequestBodyOn(st, c)
      [] call.name = "EnableDumpNoResponseBody" -> EnableDumpNoResponseBodyOn(st, c)
      [] call.name = "EnableDumpOnlyResponse" -> EnableDumpOnlyResponseOn(st, c)
      [] call.name = "EnableDumpOnlyRequest" -> EnableDumpOnlyRequestOn(st, c)
      [] call.name = "EnableDumpOnlyBody" -> EnableDumpOnlyBodyOn(st, c)
      [] call.name = "EnableDumpOnlyHeader" -> EnableDumpOnlyHeaderOn(st, c)
      [] call.name = "EnableDumpAll" -> EnableDumpAllOn(st, c)
      [] call.name = "SetDumpOptions" -> SetDumpOptionsOn(st, c, call.arg)

\* a call of a setter on c.  The history keeps what the call was, whether
\* it repeats the call before it, the client as it was before, and the
\* DumpOptions and the dumper it had before.
CallSetter(c, call) ==
    /\ ops < budget
    /\ NoCallInFlight
    /\ ops' = ops + 1
    /\ lastOp' = [name |-> call.name, c |-> c, arg |-> call.arg,
                  invalid |-> call.invalid,
                  again |-> /\ lastOp.name = call.name
                            /\ lastOp.c = c
                            /\ lastOp.arg = call.arg,
                  before |-> View(Heap, c),
                  refs |-> [dumpOptions |-> clients[c].dumpOptions,
                            dump |-> transports[clients[c].t].dump]]
    /\ Store(Apply(Heap, c, call))
    /\ UNCHANGED <<budget, parent, userReq, userResp, callVars>>

\* the calls of the setters that can meet a configuration error, each with
\* whether its input is invalid
BadURL == [wellFormed |-> FALSE, host |-> <<"h">>]

NoFile == [ok |-> FALSE]

PemFiles == {<<>>, <<NoFile>>, <<[ok |-> TRUE, data |-> {"ca1"}]>>,
             <<[ok |-> TRUE, data |-> {}]>>,
             <<[ok |-> TRUE, data |-> {"ca1"}], NoFile>>}

SetProxyURLCalls ==
    {[name |-> "SetProxyURL", arg |-> u, invalid |-> Parse(u).err] :
        u \in {BadURL, DefaultURL}}

SetCommonQueryStringCalls ==
    {[name |-> "SetCommonQueryString", arg |-> q, invalid |-> ParseQuery(q).err] :
        q \in QueryArgs}

SetCertFromFileCalls ==
    {[name |-> "SetCertFromFile", arg |-> f, invalid |-> ~f.ok] :
        f \in {NoFile, [ok |-> TRUE, cert |-> "cert1"]}}

SetRootCertsFromFileCalls ==
    {[name |-> "SetRootCertsFromFile", arg |-> fs,
      invalid |-> \E i \in 1..Len(fs) : ~fs[i].ok \/ fs[i].data = {}] :
        fs \in PemFiles}

SetRootCertFromStringCalls ==
    {[name |-> "SetRootCertFromString", arg |-> pem, invalid |-> pem = {}] :
        pem \in {{}, {"ca1"}}}

EnableDumpToFileCalls ==
    {[name |-> "EnableDumpToFile", arg |-> f, invalid |-> ~f.ok] :
        f \in {NoFile, [ok |-> TRUE, name |-> "f1"]}}

\* the calls of the setter `name` with each argument of args
CallsOf(name, args) == {[name |-> name, arg |-> a, invalid |-> FALSE] : a \in args}

----------------------------------------------------------------------------
(* Requests *)

HTTPMethods == {"GET", "HEAD", "OPTIONS", "POST", "PUT"}

\* Client.R(): a new Request of client c with an empty RawRequest
NewRequest(c) ==
    [client |-> c, method |-> "", URL |-> DefaultURL,
     Headers |-> EmptyMap, Cookies |-> <<>>, body |-> FALSE,
     isSaveResponse |-> FALSE, trace |-> FALSE, StartTime |-> FALSE,
     RawRequest |-> [Header |-> EmptyMap, Cookies |-> <<>>, URL |-> <<>>,
                     Host |-> <<>>, Method |-> "", Body |-> FALSE]]

\* a mutation of isPayloadForbid: GET is forbidden whatever the flag
isPayloadForbidGetAlways(st, c, m) == m = "GET" \/ m = "HEAD" \/ m = "OPTIONS"

\* Client.isPayloadForbid
isPayloadForbid(st, c, m) ==
    (m = "GET" /\ ~st.clients[c].AllowGetMethodPayload) \/ m = "HEAD" \/ m = "OPTIONS"

\* parseRequestHeader: the client's common headers are laid under the
\* request's own: a key the request sets keeps the request's values
parseRequestHeader(st, c, r) ==
    [r EXCEPT !.Headers =
        [k \in Keys |-> IF r.Headers[k] # <<>> THEN r.Headers[k]
                        ELSE MapVal(st.maps, st.clients[c].Headers)[k]]]

\* parseRequestCookie: the client's common cookies, then the request's own
parseRequestCookie(st, c, r) ==
    [r EXCEPT !.Cookies = Elems(st.arrays, st.clients[c].Cookies) \o @]

\* parseRequestBody: the body is attached unless the method forbids a payload
parseRequestBody(st, c, r) ==
    [r EXCEPT !.RawRequest.Body = r.body /\ ~isPayloadForbid(st, c, r.method)]

\* what the request stage f does to the request r of client c; a
\* user-registered stage is taken to leave the request as it is
RunRequestStage(st, f, c, r) ==
    IF f = "parseRequestHeader" THEN parseRequestHeader(st, c, r)
    ELSE IF f = "parseRequestCookie" THEN parseRequestCookie(st, c, r)
    ELSE IF f = "parseRequestBody" THEN parseRequestBody(st, c, r)
    ELSE r

\* a mutation of setRequestHeaderAndCookie: the client's headers are added too
setRequestHeaderAndCookieWithCommon(st, r) ==
    [r EXCEPT !.RawRequest.Header =
                  AddValues(AddValues(@, MapVal(st.maps, st.clients[r.client].Headers), Keys),
                            r.Headers, Keys),
              !.RawRequest.Cookies = @ \o r.Cookies]

\* setRequestHeaderAndCookie: every request-level header value and cookie is
\* added to the RawRequest
setRequestHeaderAndCookie(st, r) ==
    [r EXCEPT !.RawRequest.Header = AddValues(@, r.Headers, Keys),
              !.RawRequest.Cookies = @ \o r.Cookies]

\* setTrace: a request without a trace gets one when the client traces all
setTrace(st, r) == [r EXCEPT !.trace = @ \/ st.clients[r.client].trace]

\* setupRequest: the error of setRequestURL is dropped
setupRequest(st, r) ==
    LET r1 == [r EXCEPT !.RawRequest = setRequestURL(@, r.URL).raw]
    IN setTrace(st, setRequestHeaderAndCookie(st, r1))

----------------------------------------------------------------------------
(* Redirect policies.  A RedirectPolicy is given by the lengths of `via`   *)
(* at which it returns an error; the policy named "nil" is the nil func.   *)

NoError == <<>>

NilPolicy == [name |-> "nil", rejects |-> {}]

\* `if c.DebugLog { c.log.Debugf(...) }`: the logger of c that the line is
\* written to, read when the check runs; NoLogger when no line is written
NoLogger == <<>>
DebugfOf(st, c) == IF st.clients[c].DebugLog THEN <<st.clients[c].log>> ELSE NoLogger

\* a mutation of defaultCheckRedirect: the cap is checked with > instead of >=
defaultCheckRedirectOffByOne(st, c, viaLen) ==
    IF viaLen > 10
    THEN [err |-> <<"stopped after 10 redirects">>, evaluated |-> <<>>, logged |-> FALSE,
          logger |-> NoLogger]
    ELSE [err |-> NoError, evaluated |-> <<>>, logged |-> st.clients[c].DebugLog,
          logger |-> DebugfOf(st, c)]

\* Client.defaultCheckRedirect(req, via), with len(via) = viaLen
defaultCheckRedirect(st, c, viaLen) ==
    IF viaLen >= 10
    THEN [err |-> <<"stopped after 10 redirects">>, evaluated |-> <<>>, logged |-> FALSE,
          logger |-> NoLogger]
    ELSE [err |-> NoError, evaluated |-> <<>>, logged |-> st.clients[c].DebugLog,
          logger |-> DebugfOf(st, c)]

\* a mutation of the policy loop: a policy's error does not end the loop, and
\* the last error is the decision
RECURSIVE EvalPoliciesNoShortCircuit(_, _)
EvalPoliciesNoShortCircuit(policies, viaLen) ==
    IF policies = <<>> THEN [err |-> NoError, evaluated |-> <<>>]
    ELSE LET f == Head(policies)
             rest == EvalPoliciesNoShortCircuit(Tail(policies), viaLen)
         IN IF f = NilPolicy THEN rest
            ELSE [err |-> IF rest.err # NoError \/ viaLen \notin f.rejects
                          THEN rest.err ELSE <<"policy error", f.name, viaLen>>,
                  evaluated |-> <<f.name>> \o rest.evaluated]

\* `for _, f := range policies`: nil entries are skipped, the first error is
\* returned.  Returns the error and the policies that were called, in order.
RECURSIVE EvalPolicies(_, _)
EvalPolicies(policies, viaLen) ==
    IF policies = <<>> THEN [err |-> NoError, evaluated |-> <<>>]
    ELSE LET f == Head(policies)
         IN IF f = NilPolicy THEN EvalPolicies(Tail(policies), viaLen)
            ELSE IF viaLen \in f.rejects
            THEN [err |-> <<"policy error", f.name, viaLen>>, evaluated |-> <<f.name>>]
            ELSE LET rest == EvalPolicies(Tail(policies), viaLen)
                 IN [rest EXCEPT !.evaluated = <<f.name>> \o @]

\* a mutation of the closure: the cap of the default check is kept
policiesCheckRedirectCapped(st, c, policies, viaLen) ==
    IF viaLen >= 10 THEN defaultCheckRedirect(st, c, viaLen)
    ELSE LET e == EvalPolicies(policies, viaLen)
         IN [err |-> e.err, evaluated |-> e.evaluated,
             logged |-> e.err = NoError /\ st.clients[c].DebugLog,
             logger |-> IF e.err = NoError THEN DebugfOf(st, c) ELSE NoLogger]

\* the closure SetRedirectPolicy installs, bound to c and policies
policiesCheckRedirect(st, c, policies, viaLen) ==
    LET e == EvalPolicies(policies, viaLen)
    IN [err |-> e.err, evaluated |-> e.evaluated,
        logged |-> e.err = NoError /\ st.clients[c].DebugLog,
        logger |-> IF e.err = NoError THEN DebugfOf(st, c) ELSE NoLogger]

\* a mutation of CheckRedirect: the check reads the client that owns the
\* http client, not the client the function value is bound to
CheckRedirectOfOwner(st, hc, viaLen) ==
    LET f == st.httpClients[hc].CheckRedirect
        owner == CHOOSE c \in 1..Len(st.clients) : st.clients[c].httpClient = hc
    IN IF f.kind = "default" THEN defaultCheckRedirect(st, owner, viaLen)
       ELSE policiesCheckRedirect(st, owner, f.policies, viaLen)

\* httpClient.CheckRedirect(req, via) of the http client hc
CheckRedirect(st, hc, viaLen) ==
    LET f == st.httpClients[hc].CheckRedirect
    IN IF f.kind = "default" THEN defaultCheckRedirect(st, f.c, viaLen)
       ELSE policiesCheckRedirect(st, f.c, f.policies, viaLen)

SetRedirectPolicyOn(st, c, policies) ==
    IF Len(policies) = 0 THEN st
    ELSE [st EXCEPT !.httpClients[st.clients[c].httpClient].CheckRedirect =
                        [kind |-> "policies", c |-> c, policies |-> policies]]

SetRedirectPolicy(c, policies) ==
    /\ Called("SetRedirectPolicy", c)
    /\ Store(SetRedirectPolicyOn(Heap, c, policies))
    /\ UNCHANGED <<budget, parent, userReq, userResp, callVars>>

----------------------------------------------------------------------------
(* The body of a response: the bytes the transport delivered, the part of  *)
(* the live stream not read yet, the buffered copy once there is one, what *)
(* a download wrote to its file, and the number of reads of the stream.    *)

NoBody == [delivered |-> <<>>, unread |-> <<>>, buffered |-> FALSE, buf |-> <<>>,
           file |-> <<>>, reads |-> 0]

Bodies == {<<>>, <<"b1">>, <<"b1", "b2">>}

DefaultBody == <<"b1", "b2">>

\* the body of a response the transport just returned
Delivered(bytes) == [NoBody EXCEPT !.delivered = bytes, !.unread = bytes]

\* Response.ToBytes(): the buffered copy when there is one; else the whole
\* stream is read and, unless the read fails, kept as the buffered copy
ToBytes(body, fails) ==
    IF body.buffered THEN [body |-> body, bytes |-> body.buf]
    ELSE IF fails
    THEN [body |-> [body EXCEPT !.unread = <<>>, !.reads = @ + 1], bytes |-> <<>>]
    ELSE [body |-> [body EXCEPT !.unread = <<>>, !.reads = @ + 1,
                                !.buffered = TRUE, !.buf = body.unread],
          bytes |-> body.unread]

\* parseResponseBody: works on the buffered copy, leaves the stream alone
parseResponseBody(st, r, body) == body

\* handleDownload: the body of a response to be saved is streamed to its file
handleDownload(st, r, body) ==
    IF ~r.isSaveResponse THEN body
    ELSE IF body.buffered THEN [body EXCEPT !.file = body.buf]
    ELSE [body EXCEPT !.file = body.unread, !.unread = <<>>, !.reads = @ + 1]

\* what the response stage f does to the body of the response to request r;
\* a user-registered stage is taken to leave it as it is
RunResponseStage(st, f, r, body) ==
    IF f = "parseResponseBody" THEN parseResponseBody(st, r, body)
    ELSE IF f = "handleDownload" THEN handleDownload(st, r, body)
    ELSE body

----------------------------------------------------------------------------
(* Client.do, step by step.  A call k has its position pc, the loop index  *)
(* i over the slice rng its `range` evaluated, the named results err and   *)
(* resp, and, as history, the trace of what it ran, the redirect hops, the *)
(* stages registered on its client when it began (regReq, regResp), the    *)
(* request-level headers it was sent with (ownHeaders), whether auto-read  *)
(* was disabled when the transport returned (disabled), the response body  *)
(* and what the caller read from it after the call (got).                  *)

MaxRequests == 1
MaxCalls == 1
MaxRedirects == 11

\* Client.R(): a new Request joins the requests of the program
MakeRequest(c) ==
    /\ requests' = Append(requests, NewRequest(c))
    /\ UNCHANGED <<heapVars, histVars, calls>>

\* Client.R()
R(c) ==
    /\ Len(requests) < MaxRequests
    /\ MakeRequest(c)

\* Request.SetHeader(key, value): the request-level header is set
SetHeader(r, key, value) ==
    /\ \A k \in 1..Len(calls) : calls[k].r # r
    /\ requests' = [requests EXCEPT ![r].Headers = HeaderSet(@, key, value)]
    /\ UNCHANGED <<heapVars, histVars, calls>>

\* `for _, f := range list` is entered: the slice is evaluated once, and an
\* empty one takes the call to what follows the loop
EnterLoop(call, phase, list, after) ==
    IF list.len > 0 THEN [call EXCEPT !.pc = phase, !.i = 1, !.rng = list]
    ELSE after

EnterAfterResponse(st, call) ==
    EnterLoop(call, "afterResponse", st.clients[requests[call.r].client].afterResponse,
              [call EXCEPT !.pc = "return"])

EnterBeforeRequest(st, call) ==
    EnterLoop(call, "beforeRequest", st.clients[requests[call.r].client].beforeRequest,
              [call EXCEPT !.pc = "setupRequest"])

EnterUdBeforeRequest(st, call) ==
    EnterLoop(call, "udBeforeRequest", st.clients[requests[call.r].client].udBeforeRequest,
              EnterBeforeRequest(st, call))

\* Request.SetOutputFile(file): the response is to be saved, not buffered
SetOutputFile(r) ==
    /\ \A k \in 1..Len(calls) : calls[k].r # r
    /\ ~requests[r].isSaveResponse
    /\ requests' = [requests EXCEPT ![r].isSaveResponse = TRUE]
    /\ UNCHANGED <<heapVars, histVars, calls>>

\* the method and URL of r are set and r.client.do(r) begins with
\* `resp = &Response{}`
Begin(r, method, url) ==
    /\ requests' = [requests EXCEPT ![r].method = method, ![r].URL = url,
                                    ![r].body = TRUE, ![r].RawRequest.Method = method]
    /\ calls' = Append(calls,
          EnterUdBeforeRequest(Heap,
              [c |-> requests[r].client, r |-> r, pc |-> "start", i |-> 0,
               rng |-> NilSlice, err |-> NoError,
               resp |-> [Request |-> NIL, Response |-> FALSE],
               body |-> NoBody, got |-> <<>>, disabled |-> FALSE,
               trace |-> <<>>, hops |-> <<>>,
               regReq |-> userReq[requests[r].client],
               regResp |-> userResp[requests[r].client],
               ownHeaders |-> requests[r].Headers]))
    /\ UNCHANGED <<heapVars, histVars>>

\* Request.Send(method, url) with a body.  A Request is owned by one call:
\* it is sent once.
Send(r, method, url) ==
    /\ Len(calls) < MaxCalls
    /\ \A k \in 1..Len(calls) : calls[k].r # r
    /\ Begin(r, method, url)

\* a mutation of the writes of do: what a call writes to its Request is
\* written to every Request
DoWritesAll(rs, call, r1) == [j \in DOMAIN rs |-> r1]

\* do writes the Request r it was called with, and no other
DoWrites(rs, call, r1) == [rs EXCEPT ![call.r] = r1]

\* a mutation of the request loops: a stage's error does not end the loop
RequestStageReturnedNoAbort(st, call, e) ==
    LET c1 == [call EXCEPT !.err = e]
    IN IF call.i < call.rng.len THEN [c1 EXCEPT !.i = @ + 1]
       ELSE IF call.pc = "udBeforeRequest" THEN EnterBeforeRequest(st, c1)
       ELSE [c1 EXCEPT !.pc = "setupRequest"]

\* `if err = f(r.client, r); err != nil { return }` in the two request loops
RequestStageReturned(st, call, e) ==
    LET c1 == [call EXCEPT !.err = e]
    IN IF e # NoError THEN [c1 EXCEPT !.pc = "return"]
       ELSE IF call.i < call.rng.len THEN [c1 EXCEPT !.i = @ + 1]
       ELSE IF call.pc = "udBeforeRequest" THEN EnterBeforeRequest(st, c1)
       ELSE [c1 EXCEPT !.pc = "setupRequest"]

\* one iteration of a request loop: the stage f runs and returns nil or an error
DoRequestStage(k, fails) ==
    /\ calls[k].pc \in {"udBeforeRequest", "beforeRequest"}
    /\ LET call == calls[k]
           f == arrays[call.rng.arr][call.i]
           e == IF fails THEN <<"stage error", f, Len(call.trace) + 1>> ELSE NoError
           c1 == [call EXCEPT !.trace = Append(@, [ev |-> call.pc, f |-> f, ret |-> e])]
       IN /\ calls' = [calls EXCEPT ![k] = RequestStageReturned(Heap, c1, e)]
          /\ requests' = DoWrites(requests, call,
                             RunRequestStage(Heap, f, requests[call.r].client,
                                             requests[call.r]))
    /\ UNCHANGED <<heapVars, histVars>>

\* setupRequest(r), the debug log line, r.StartTime, and httpClient.Do is
\* called with r.RawRequest.  The log line reads r.RawRequest.URL.
DoDispatch(k) ==
    /\ calls[k].pc = "setupRequest"
    /\ LET call == calls[k]
           r1 == setupRequest(Heap, requests[call.r])
       IN IF clients[call.c].DebugLog /\ r1.RawRequest.URL = <<>>
          THEN /\ requests' = DoWrites(requests, call, r1)
               /\ calls' = [calls EXCEPT ![k].pc = "panic",
                                ![k].trace = Append(@, [ev |-> "setupRequest",
                                                       f |-> "setupRequest", ret |-> NoError])]
          ELSE /\ requests' = DoWrites(requests, call, [r1 EXCEPT !.StartTime = TRUE])
               /\ calls' = [calls EXCEPT ![k].pc = "Do",
                                ![k].trace = @ \o
                                   <<[ev |-> "setupRequest", f |-> "setupRequest", ret |-> NoError],
                                     [ev |-> "transport", f |-> "httpClient.Do", ret |-> NoError]>>]
    /\ UNCHANGED <<heapVars, histVars>>

\* inside httpClient.Do: the server answers with a redirect, and the http
\* client asks CheckRedirect with via = the requests made so far; its error
\* ends the exchange and is what httpClient.Do returns
TransportRedirect(k) ==
    /\ calls[k].pc = "Do"
    /\ Len(calls[k].hops) < MaxRedirects
    /\ LET call == calls[k]
           viaLen == Len(call.hops) + 1
           d == CheckRedirect(Heap, clients[call.c].httpClient, viaLen)
           c1 == [call EXCEPT !.hops = Append(@,
                      [via |-> viaLen, err |-> d.err, evaluated |-> d.evaluated,
                       logged |-> d.logged, logger |-> d.logger,
                       check |-> httpClients[clients[call.c].httpClient].CheckRedirect])]
       IN calls' = [calls EXCEPT ![k] =
                       IF d.err # NoError
                       THEN [c1 EXCEPT !.err = d.err, !.pc = "return",
                                       !.trace[Len(call.trace)].ret = d.err]
                       ELSE c1]
    /\ UNCHANGED <<heapVars, histVars, requests>>

\* a mutation of the transport step: the first transport error is retried
TransportReturnedRetry(st, call, e) ==
    IF e # NoError
    THEN IF Len(SelectSeq(call.trace, LAMBDA x : x.ev = "transport")) > 1
         THEN [call EXCEPT !.err = e, !.pc = "return"]
         ELSE [call EXCEPT !.trace = Append(@, [ev |-> "transport",
                                                 f |-> "httpClient.Do", ret |-> NoError])]
    ELSE LET c1 == [call EXCEPT !.err = NoError,
                                !.resp = [Request |-> call.r, Response |-> TRUE]]
         IN IF ~st.clients[call.c].disableAutoReadResponse
               /\ ~requests[call.r].isSaveResponse
            THEN [c1 EXCEPT !.pc = "autoRead"]
            ELSE EnterAfterResponse(st, c1)

\* a mutation of the transport step: the body is never read by do
TransportReturnedNoAutoRead(st, call, e) ==
    IF e # NoError THEN [call EXCEPT !.err = e, !.pc = "return"]
    ELSE EnterAfterResponse(st, [call EXCEPT !.err = NoError,
                                     !.resp = [Request |-> call.r, Response |-> TRUE]])

\* a mutation of the transport step: the body is read whatever the flags
TransportReturnedAlwaysRead(st, call, e) ==
    IF e # NoError THEN [call EXCEPT !.err = e, !.pc = "return"]
    ELSE [call EXCEPT !.err = NoError, !.pc = "autoRead",
                      !.resp = [Request |-> call.r, Response |-> TRUE]]

\* a mutation of the transport step: resp is filled before the error is
\* looked at
TransportReturnedFillsFirst(st, call, e) ==
    LET c1 == [call EXCEPT !.err = e,
                           !.resp = [Request |-> call.r, Response |-> TRUE]]
    IN IF e # NoError THEN [c1 EXCEPT !.pc = "return"]
       ELSE IF ~st.clients[call.c].disableAutoReadResponse
               /\ ~requests[call.r].isSaveResponse
       THEN [c1 EXCEPT !.pc = "autoRead"]
       ELSE EnterAfterResponse(st, c1)

\* `httpResponse, err := c.httpClient.Do(r.RawRequest)` returned: an error is
\* returned as it is; else resp is filled and the body is read unless
\* auto-read is disabled or the response is to be saved
TransportReturned(st, call, e) ==
    IF e # NoError THEN [call EXCEPT !.err = e, !.pc = "return"]
    ELSE LET c1 == [call EXCEPT !.err = NoError,
                                !.resp = [Request |-> call.r, Response |-> TRUE]]
         IN IF ~st.clients[call.c].disableAutoReadResponse
               /\ ~requests[call.r].isSaveResponse
            THEN [c1 EXCEPT !.pc = "autoRead"]
            ELSE EnterAfterResponse(st, c1)

\* httpClient.Do returns a response with the body bytes, or an error of
\* the transport
TransportDelivers(k, fails, bytes) ==
    /\ calls[k].pc = "Do"
    /\ LET call == calls[k]
           e == IF fails THEN <<"transport error", Len(call.trace)>> ELSE NoError
           c1 == [call EXCEPT !.trace[Len(call.trace)].ret = e,
                              !.body = IF fails THEN NoBody ELSE Delivered(bytes),
                              !.disabled = clients[call.c].disableAutoReadResponse]
       IN calls' = [calls EXCEPT ![k] = TransportReturned(Heap, c1, e)]
    /\ UNCHANGED <<heapVars, histVars, requests>>

TransportReturn(k, fails) == TransportDelivers(k, fails, DefaultBody)

\* `_, err = resp.ToBytes(); if err != nil { return }`
AutoReadReturned(st, call, e) ==
    IF e # NoError THEN [call EXCEPT !.err = e, !.pc = "return"]
    ELSE EnterAfterResponse(st, [call EXCEPT !.err = e])

\* the auto-read of the response body
DoAutoRead(k, fails) ==
    /\ calls[k].pc = "autoRead"
    /\ LET call == calls[k]
           e == IF fails THEN <<"read error", Len(call.trace) + 1>> ELSE NoError
           c1 == [call EXCEPT !.trace = Append(@, [ev |-> "autoRead", f |-> "ToBytes", ret |-> e]),
                              !.body = ToBytes(@, fails).body]
       IN calls' = [calls EXCEPT ![k] = AutoReadReturned(Heap, c1, e)]
    /\ UNCHANGED <<heapVars, histVars, requests>>

\* the caller reads the body of the response a call returned: resp.ToBytes()
ReadBody(k) ==
    /\ calls[k].pc = "return"
    /\ calls[k].err = NoError
    /\ calls[k].got = <<>>
    /\ LET rd == ToBytes(calls[k].body, FALSE)
       IN calls' = [calls EXCEPT ![k].body = rd.body, ![k].got = <<rd.bytes>>]
    /\ UNCHANGED <<heapVars, histVars, requests>>

\* a mutation of the response loop: a stage's error does not end the loop
ResponseStageReturnedNoAbort(st, call, e) ==
    LET c1 == [call EXCEPT !.err = e]
    IN IF call.i = call.rng.len THEN [c1 EXCEPT !.pc = "return"]
       ELSE [c1 EXCEPT !.i = @ + 1]

\* `if err = f(r.client, resp); err != nil { return }` in the response loop
ResponseStageReturned(st, call, e) ==
    LET c1 == [call EXCEPT !.err = e]
    IN IF e # NoError \/ call.i = call.rng.len THEN [c1 EXCEPT !.pc = "return"]
       ELSE [c1 EXCEPT !.i = @ + 1]

\* one iteration of the response loop
DoResponseStage(k, fails) ==
    /\ calls[k].pc = "afterResponse"
    /\ LET call == calls[k]
           f == arrays[call.rng.arr][call.i]
           e == IF fails THEN <<"stage error", f, Len(call.trace) + 1>> ELSE NoError
           c1 == [call EXCEPT !.trace = Append(@, [ev |-> "afterResponse", f |-> f, ret |-> e]),
                              !.body = RunResponseStage(Heap, f, requests[call.r], @)]
       IN calls' = [calls EXCEPT ![k] = ResponseStageReturned(Heap, c1, e)]
    /\ UNCHANGED <<heapVars, histVars, requests>>

\* the state after `C()`, with b API calls to explore
Start(b) ==
    /\ LET st == NewClient(EmptyHeap)
       IN /\ clients = st.clients
          /\ httpClients = st.httpClients
          /\ maps = st.maps
          /\ arrays = st.arrays
          /\ transports = st.transports
          /\ dumpOpts = st.dumpOpts
          /\ jars = st.jars
          /\ defaultClient = Len(st.clients)
          /\ cookieObjs = st.cookieObjs
    /\ requests = <<>>
    /\ calls = <<>>
    /\ ops = 0
    /\ budget = b
    /\ lastOp = [name |-> "C", c |-> 1]
    /\ parent = <<0>>
    /\ userReq = << <<>> >>
    /\ userResp = << <<>> >>

----------------------------------------------------------------------------
(* Spec: the collection setters and Clone *)

Init == Start(MaxOps)

Next ==
    \E c \in Allocated :
        \/ \E k \in RawKeys, v \in Vals : SetCommonHeader(c, k, v)
        \/ \E m \in HeaderArgs : SetCommonHeaders(c, m)
        \/ \E k \in Keys, v \in Vals : SetCommonQueryParam(c, k, v)
        \/ \E m \in ParamArgs : SetCommonQueryParams(c, m)
        \/ \E q \in QueryArgs : SetCommonQueryString(c, q)
        \/ \E m \in ParamArgs : SetCommonFormData(c, m)
        \/ \E d \in ValuesArgs : SetCommonFormDataFromValues(c, d)
        \/ \E cs \in CookieArgs : SetCommonCookies(c, cs)
        \/ Clone(c)
        \/ Clone2(c)

Spec == Init /\ [][Next]_vars

----------------------------------------------------------------------------
(* SpecDo: stages are registered on a client, requests are made and sent   *)

MaxDoOps == 3

InitDo == Start(MaxDoOps)

Requests == 1..Len(requests)
Calls == 1..Len(calls)

\* the Requests are alike: they are sent in the order they were made in
NextDo ==
    \/ \E c \in Allocated, m \in UserStages : OnBeforeRequest(c, m)
    \/ \E c \in Allocated, m \in UserStages : OnAfterResponse(c, m)
    \/ \E c \in Allocated : R(c)
    \/ \E r \in Requests : r = Len(calls) + 1 /\ Send(r, "GET", DefaultURL)
    \/ \E k \in Calls, fails \in BOOLEAN : DoRequestStage(k, fails)
    \/ \E k \in Calls : DoDispatch(k)
    \/ \E k \in Calls, fails \in BOOLEAN : TransportReturn(k, fails)
    \/ \E k \in Calls, fails \in BOOLEAN : DoAutoRead(k, fails)
    \/ \E k \in Calls, fails \in BOOLEAN : DoResponseStage(k, fails)

SpecDo == InitDo /\ [][NextDo]_vars

----------------------------------------------------------------------------
(* SpecPayload: the GET payload flag is set, requests of every method are  *)
(* sent and run through the stages                                         *)

MaxPayloadOps == 2

InitPayload == Start(MaxPayloadOps)

NextPayload ==
    \/ \E c \in Allocated, a \in BOOLEAN : EnableAllowGetMethodPayload(c, a)
    \/ \E c \in Allocated : R(c)
    \/ \E r \in Requests, m \in HTTPMethods : Send(r, m, DefaultURL)
    \/ \E k \in Calls : DoRequestStage(k, FALSE)
    \/ \E k \in Calls : DoDispatch(k)
    \/ \E k \in Calls : TransportReturn(k, TRUE)

SpecPayload == InitPayload /\ [][NextPayload]_vars

----------------------------------------------------------------------------
(* SpecRedirect: a redirect policy is set, a request is sent and the       *)
(* server answers with redirects                                           *)

MaxRedirectOps == 1

Allow == [name |-> "allow", rejects |-> {}]
At2 == [name |-> "at2", rejects |-> {2}]
From2 == [name |-> "from2", rejects |-> 2..20]

PolicyArgs == {<<>>, <<At2>>, <<NilPolicy>>, <<NilPolicy, Allow, At2, From2>>,
               <<From2, At2>>}

InitRedirect == Start(MaxRedirectOps)

NextRedirect ==
    \/ \E c \in Allocated, ps \in PolicyArgs : SetRedirectPolicy(c, ps)
    \/ \E c \in Allocated : R(c)
    \/ \E r \in Requests : Send(r, "GET", DefaultURL)
    \/ \E k \in Calls : DoRequestStage(k, FALSE)
    \/ \E k \in Calls : DoDispatch(k)
    \/ \E k \in Calls : TransportRedirect(k)
    \/ \E k \in Calls, fails \in BOOLEAN : TransportReturn(k, fails)
    \/ \E k \in Calls : DoAutoRead(k, FALSE)
    \/ \E k \in Calls : DoResponseStage(k, FALSE)

SpecRedirect == InitRedirect /\ [][NextRedirect]_vars

----------------------------------------------------------------------------
(* SpecMerge: common headers are set on the client, headers on a request,  *)
(* and the request is sent                                                 *)

MaxMergeOps == 2

InitMerge == Start(MaxMergeOps)

NextMerge ==
    \/ \E c \in Allocated, k \in RawKeys, v \in Vals : SetCommonHeader(c, k, v)
    \/ \E c \in Allocated : R(c)
    \/ \E r \in Requests, k \in RawKeys, v \in Vals : SetHeader(r, k, v)
    \/ \E r \in Requests : Send(r, "GET", DefaultURL)
    \/ \E k \in Calls : DoRequestStage(k, FALSE)
    \/ \E k \in Calls : DoDispatch(k)
    \/ \E k \in Calls : TransportReturn(k, TRUE)

SpecMerge == InitMerge /\ [][NextMerge]_vars

----------------------------------------------------------------------------
(* SpecURL: one exchange, sent to a URL of any host                        *)

MaxHostLen == 3

RECURSIVE Strings(_)
Strings(n) ==
    IF n = 0 THEN {<<>>}
    ELSE LET shorter == Strings(n - 1)
         IN shorter \cup {Append(s, ch) : s \in shorter, ch \in HostChars}

URLArgs == [wellFormed : BOOLEAN, host : Strings(MaxHostLen)]

InitURL == Start(0)

NextURL ==
    \/ \E c \in Allocated : R(c)
    \/ \E r \in Requests, u \in URLArgs : calls = <<>> /\ Send(r, "GET", u)
    \/ \E k \in Calls : DoRequestStage(k, FALSE)
    \/ \E k \in Calls : DoDispatch(k)
    \/ \E k \in Calls : TransportReturn(k, TRUE)

SpecURL == InitURL /\ [][NextURL]_vars

----------------------------------------------------------------------------
(* SpecRead: exchanges with and without the auto-read, read by the caller  *)

MaxReadOps == 2

InitRead == Start(MaxReadOps)

NextRead ==
    \/ \E c \in Allocated, b \in BOOLEAN : DisableAutoReadResponse(c, b)
    \/ \E c \in Allocated : R(c)
    \/ \E r \in Requests : SetOutputFile(r)
    \/ \E r \in Requests : Send(r, "GET", DefaultURL)
    \/ \E k \in Calls : DoRequestStage(k, FALSE)
    \/ \E k \in Calls : DoDispatch(k)
    \/ \E k \in Calls, fails \in BOOLEAN, b \in Bodies : TransportDelivers(k, fails, b)
    \/ \E k \in Calls, fails \in BOOLEAN : DoAutoRead(k, fails)
    \/ \E k \in Calls : DoResponseStage(k, FALSE)
    \/ \E k \in Calls : ReadBody(k)

SpecRead == InitRead /\ [][NextRead]_vars

----------------------------------------------------------------------------
(* SpecConfig: the setters that can meet a configuration error *)

MaxConfigOps == 2

InitConfig == Start(MaxConfigOps)

Setter(setterCalls) == \E c \in Allocated, call \in setterCalls : CallSetter(c, call)

NextConfig ==
    \/ Setter(SetProxyURLCalls)
    \/ Setter(SetCommonQueryStringCalls)
    \/ Setter(SetCertFromFileCalls)
    \/ Setter(SetRootCertsFromFileCalls)
    \/ Setter(SetRootCertFromStringCalls)
    \/ Setter(EnableDumpToFileCalls)

SpecConfig == InitConfig /\ [][NextConfig]_vars

----------------------------------------------------------------------------
(* SpecClone: a client is configured and cloned *)

MaxCloneOps == 2

InitClone == Start(MaxCloneOps)

NextClone ==
    \/ Setter(CallsOf("SetBaseURL", {<<"h">>, <<"h", "/">>}))
    \/ Setter(CallsOf("SetScheme", {<<"s">>, <<" ">>}))
    \/ Setter(CallsOf("SetOutputDirectory", {"dir"}))
    \/ Setter(CallsOf("EnableDebugLog", BOOLEAN))
    \/ Setter(CallsOf("EnableTraceAll", BOOLEAN))
    \/ Setter(CallsOf("EnableAllowGetMethodPayload", BOOLEAN))
    \/ Setter(CallsOf("DisableAutoReadResponse", BOOLEAN))
    \/ Setter(CallsOf("SetJsonMarshal", {"userMarshal"}))
    \/ Setter(CallsOf("SetCommonHeader", {<<"x-a", "v1">>}))
    \/ Setter(CallsOf("SetCommonQueryParam", {<<"a", "v1">>}))
    \/ Setter(CallsOf("SetCommonFormData", ParamArgs))
    \/ Setter(CallsOf("SetCommonCookies", CookieArgs))
    \/ \E c \in Allocated, m \in UserStages : OnBeforeRequest(c, m)
    \/ \E c \in Allocated, m \in UserStages : OnAfterResponse(c, m)
    \/ \E c \in Allocated : Clone(c)
    \/ \E c \in Allocated : Clone2(c)

SpecClone == InitClone /\ [][NextClone]_vars

----------------------------------------------------------------------------
(* SpecStages: stages are registered on a client and on its clones *)

MaxStageOps == 3

InitStages == Start(MaxStageOps)

NextStages ==
    \E c \in Allocated :
        \/ \E m \in UserStages : OnBeforeRequest(c, m)
        \/ \E m \in UserStages : OnAfterResponse(c, m)
        \/ Clone(c)
        \/ Clone2(c)

SpecStages == InitStages /\ [][NextStages]_vars

----------------------------------------------------------------------------
(* SpecShare: the http client, the transport and the cookie jar of a       *)
(* client and of its clones                                                *)

MaxShareOps == 3

\* c.httpClient.Do stores a cookie that a response sets in the http
\* client's jar, when it has one
JarSetCookies(c, cookie) ==
    /\ httpClients[clients[c].httpClient].Jar # NIL
    /\ Called("JarSetCookies", c)
    /\ Store([Heap EXCEPT !.jars[httpClients[clients[c].httpClient].Jar] =
                              @ \cup {cookie}])
    /\ UNCHANGED <<budget, parent, userReq, userResp, callVars>>

InitShare == Start(MaxShareOps)

NextShare ==
    \/ Setter(CallsOf("SetTimeout", {"1s"}))
    \/ Setter(CallsOf("SetCookieJar", {<<>>, <<{}>>}))
    \/ Setter(CallsOf("SetProxy", {<<"p1">>}))
    \/ Setter(CallsOf("DisableKeepAlives", BOOLEAN))
    \/ \E c \in Allocated : JarSetCookies(c, "ck1")
    \/ \E c \in Allocated : Clone(c)
    \/ \E c \in Allocated : Clone2(c)

SpecShare == InitShare /\ [][NextShare]_vars

----------------------------------------------------------------------------
(* SpecDump: dump is configured and enabled on a client and on its clones *)

MaxDumpOps == 3

\* the writer that the caller of a setter of client c hands to it: the
\* callers of different clients hand different writers
WriterOf(c) == CASE c = 1 -> "w1" [] c = 2 -> "w2" [] OTHER -> "w3"

\* the DumpOptions a caller makes for SetDumpOptions on client c
OptionsOf(c) == [newDefaultDumpOptions EXCEPT !.Output = WriterOf(c), !.RequestBody = FALSE]

InitDump == Start(MaxDumpOps)

NextDump ==
    \/ Setter(CallsOf("EnableDump", BOOLEAN))
    \/ \E c \in Allocated : CallSetter(c, [name |-> "EnableDumpTo", arg |-> WriterOf(c),
                                             invalid |-> FALSE])
    \/ \E c \in Allocated : CallSetter(c, [name |-> "SetDumpOptions",
                                             arg |-> <<OptionsOf(c)>>, invalid |-> FALSE])
    \/ Setter(CallsOf("SetDumpOptions", {<<>>}))
    \/ Setter(CallsOf("EnableDumpAsync", {<<>>}))
    \/ Setter(CallsOf("EnableDumpAll", {<<>>}))
    \/ Setter(CallsOf("EnableDumpOnlyHeader", {<<>>}))
    \/ Setter(CallsOf("EnableDumpNoResponseBody", {<<>>}))
    \/ \E c \in Allocated : Clone(c)
    \/ \E c \in Allocated : Clone2(c)

SpecDump == InitDump /\ [][NextDump]_vars

----------------------------------------------------------------------------
(* SpecSetters: setters are called on a client, some of them twice in a    *)
(* row with the same argument                                              *)

MaxSetterOps == 2

InitSetters == Start(MaxSetterOps)

NextSetters ==
    \/ Setter(CallsOf("SetBaseURL", {<<"h", "/">>}))
    \/ Setter(CallsOf("SetScheme", {<<"s">>}))
    \/ Setter(CallsOf("SetOutputDirectory", {"dir"}))
    \/ Setter(CallsOf("EnableDebugLog", BOOLEAN))
    \/ Setter(CallsOf("EnableTraceAll", {TRUE}))
    \/ Setter(CallsOf("EnableAllowGetMethodPayload", {TRUE}))
    \/ Setter(CallsOf("DisableAutoReadResponse", {TRUE}))
    \/ Setter(CallsOf("SetJsonMarshal", {"userMarshal"}))
    \/ Setter(CallsOf("SetLogger", {"", "userLogger"}))
    \/ Setter(CallsOf("SetTimeout", {"1s"}))
    \/ Setter(CallsOf("SetCookieJar", {<<>>, <<{}>>}))
    \/ Setter(CallsOf("SetProxy", {<<"p1">>}))
    \/ Setter(CallsOf("DisableKeepAlives", {TRUE}))
    \/ Setter(SetProxyURLCalls)
    \/ Setter(SetRootCertFromStringCalls)
    \/ Setter(SetCertFromFileCalls)
    \/ Setter(CallsOf("SetCerts", {<<"cert1">>}))
    \/ Setter(CallsOf("SetCommonHeader", {<<"x-a", "v1">>}))
    \/ Setter(CallsOf("SetCommonHeaders", HeaderArgs))
    \/ Setter(CallsOf("SetCommonQueryParam", {<<"a", "v1">>}))
    \/ Setter(CallsOf("SetCommonQueryParams", ParamArgs))
    \/ Setter(CallsOf("SetCommonFormData", ParamArgs))
    \/ Setter(SetCommonQueryStringCalls)
    \/ Setter(CallsOf("SetCommonFormDataFromValues", ValuesArgs))
    \/ Setter(CallsOf("SetCommonCookies", CookieArgs))
    \/ Setter(CallsOf("OnBeforeRequest", UserStages))
    \/ Setter(CallsOf("OnAfterResponse", UserStages))
    \/ Setter(CallsOf("EnableDump", BOOLEAN))
    \/ Setter(CallsOf("EnableDumpTo", {"w1"}))
    \/ Setter(CallsOf("EnableDumpOnlyBody", {<<>>}))
    \/ Setter(CallsOf("SetDumpOptions", {<<>>, <<newDefaultDumpOptions>>}))

SpecSetters == InitSetters /\ [][NextSetters]_vars

----------------------------------------------------------------------------
(* SpecDefault: the default client is replaced, and the package-level      *)
(* functions are called                                                    *)

MaxDefaultOps == 3

\* DefaultClient()
DefaultClient(st) == st.defaultClient

\* a mutation of SetDefaultClient: nil is assigned as any client is
SetDefaultClientAlways(st, c) == [st EXCEPT !.defaultClient = c]

\* SetDefaultClient(c): `if c != nil { defaultClient = c }`
SetDefaultClientOn(st, c) ==
    IF c # NIL THEN [st EXCEPT !.defaultClient = c] ELSE st

SetDefaultClient(c) ==
    /\ ops < budget /\ NoCallInFlight /\ ops' = ops + 1
    /\ lastOp' = [name |-> "SetDefaultClient", c |-> DefaultClient(Heap), arg |-> c]
    /\ Store(SetDefaultClientOn(Heap, c))
    /\ UNCHANGED <<budget, parent, userReq, userResp, callVars>>

\* C(): the caller makes another client
NewC ==
    /\ Len(clients) < MaxClients
    /\ Called("C", Len(clients) + 1)
    /\ Store(NewClient(Heap))
    /\ parent' = Append(parent, 0)
    /\ userReq' = Append(userReq, <<>>)
    /\ userResp' = Append(userResp, <<>>)
    /\ UNCHANGED <<budget, callVars>>

\* a package-level setter: `return defaultClient.X(arg)`
Wrapper(setterCalls) == \E call \in setterCalls : CallSetter(DefaultClient(Heap), call)

\* the package-level R(): `return defaultClient.R()`
GlobalR == R(DefaultClient(Heap))

InitDefault == Start(MaxDefaultOps)

NextDefault ==
    \/ \E c \in Allocated \cup {NIL} : SetDefaultClient(c)
    \/ NewC
    \/ \E c \in Allocated : Clone(c)
    \/ Wrapper(CallsOf("SetBaseURL", {<<"h">>}))
    \/ Wrapper(CallsOf("SetCommonHeader", {<<"x-a", "v1">>}))
    \/ Wrapper(CallsOf("SetCommonCookies", {<<"ck1">>}))
    \/ Wrapper(CallsOf("EnableDebugLog", {TRUE}))
    \/ Wrapper(CallsOf("SetTimeout", {"1s"}))
    \/ GlobalR

SpecDefault == InitDefault /\ [][NextDefault]_vars

----------------------------------------------------------------------------
(* SpecConc: calls of do run at the same time on one client, each with a   *)
(* Request of its own                                                      *)

MaxConcOps == 1
MaxConcRequests == 2

\* c.R() by one of the callers that share the client
RConc(c) ==
    /\ Len(requests) < MaxConcRequests
    /\ MakeRequest(c)

\* a caller sends its Request while calls of other callers are under way;
\* the callers are alike, so the Requests are sent in the order they were
\* made in
SendConc(r) ==
    /\ r = Len(calls) + 1
    /\ Begin(r, "GET", DefaultURL)

InitConc == Start(MaxConcOps)

\* the client is configured before the first call
NextConc ==
    \/ \E c \in Allocated, m \in UserStages : calls = <<>> /\ OnBeforeRequest(c, m)
    \/ \E c \in Allocated : calls = <<>> /\ SetCommonHeader(c, "X-A", "v1")
    \/ \E c \in Allocated : RConc(c)
    \/ \E r \in Requests : SetHeader(r, "X-B", "v2")
    \/ \E r \in Requests : SendConc(r)
    \/ \E k \in Calls : DoRequestStage(k, FALSE)
    \/ \E k \in Calls : DoDispatch(k)
    \/ \E k \in Calls, fails \in BOOLEAN : TransportReturn(k, fails)
    \/ \E k \in Calls : DoAutoRead(k, FALSE)
    \/ \E k \in Calls : DoResponseStage(k, FALSE)

SpecConc == InitConc /\ [][NextConc]_vars

----------------------------------------------------------------------------
(* SpecReuse: a Request that was sent is sent again *)

MaxReuseCalls == 2

\* r.client.do(r) is called with a Request no call is working on, be it new
\* or the Request of a call that returned: do has no check of its own
DoAgain(r) ==
    /\ Len(calls) < MaxReuseCalls
    /\ \A k \in 1..Len(calls) : calls[k].r = r => calls[k].pc = "return"
    /\ Begin(r, "GET", DefaultURL)

InitReuse == Start(0)

NextReuse ==
    \/ \E c \in Allocated : R(c)
    \/ \E r \in Requests, k \in RawKeys : SetHeader(r, k, "v2")
    \/ \E r \in Requests : DoAgain(r)
    \/ \E k \in Calls : DoRequestStage(k, FALSE)
    \/ \E k \in Calls : DoDispatch(k)
    \/ \E k \in Calls, fails \in BOOLEAN : TransportReturn(k, fails)
    \/ \E k \in Calls, fails \in BOOLEAN : DoAutoRead(k, fails)
    \/ \E k \in Calls : DoResponseStage(k, FALSE)

SpecReuse == InitReuse /\ [][NextReuse]_vars

----------------------------------------------------------------------------
(* SpecDumpFile: dump to a file, by either definition of EnableDumpToFile  *)

MaxDumpFileOps == 3

\* the calls of the second definition of EnableDumpToFile
EnableDumpToFile2Calls ==
    {[name |-> "EnableDumpToFile2", arg |-> f, invalid |-> ~f.ok] :
        f \in {NoFile, [ok |-> TRUE, name |-> "f1"]}}

InitDumpFile == Start(MaxDumpFileOps)

NextDumpFile ==
    \/ Setter(EnableDumpToFileCalls)
    \/ Setter(EnableDumpToFile2Calls)
    \/ Setter(CallsOf("EnableDump", BOOLEAN))
    \/ Setter(CallsOf("EnableDumpTo", {"w1"}))
    \/ Setter(CallsOf("EnableDumpOnlyHeader", {<<>>}))
    \/ \E c \in Allocated : Clone(c)

SpecDumpFile == InitDumpFile /\ [][NextDumpFile]_vars

----------------------------------------------------------------------------
(* SpecCookies: cookies are set on a client and on its clones, and a       *)
(* caller changes a cookie that a client holds                             *)

MaxCookieOps == 4

\* the cookie that the caller of SetCommonCookies on client c makes for it:
\* the callers of different clients make different cookies
CookieOf(c) == CASE c = 1 -> "ck1" [] c = 2 -> "ck2" [] OTHER -> "ck3"

\* c.Cookies[i].Value = v, by a caller that holds the client
SetCookieValue(c, i, v) ==
    /\ i \in 1..clients[c].Cookies.len
    /\ Called("SetCookieValue", c)
    /\ Store([Heap EXCEPT !.cookieObjs[Elems(arrays, clients[c].Cookies)[i]] = v])
    /\ UNCHANGED <<budget, parent, userReq, userResp, callVars>>

InitCookies == Start(MaxCookieOps)

NextCookies ==
    \E c \in Allocated :
        \/ SetCommonCookies(c, <<CookieOf(c)>>)
        \/ \E i \in 1..2, v \in {"a", "b"} : SetCookieValue(c, i, v)
        \/ Clone(c)
        \/ Clone2(c)

SpecCookies == InitCookies /\ [][NextCookies]_vars

----------------------------------------------------------------------------
(* What a caller observes of the collection fields of client c *)

CollectionFields(c) ==
    [Headers     |-> <<clients[c].Headers = NIL, MapVal(maps, clients[c].Headers)>>,
     QueryParams |-> <<clients[c].QueryParams = NIL, MapVal(maps, clients[c].QueryParams)>>,
     PathParams  |-> <<clients[c].PathParams = NIL, MapVal(maps, clients[c].PathParams)>>,
     FormData    |-> <<clients[c].FormData = NIL, MapVal(maps, clients[c].FormData)>>,
     Cookies     |-> Elems(arrays, clients[c].Cookies)]

\* C1: a call on one client (a collection setter, or Clone itself) leaves the
\* Headers, QueryParams, PathParams, FormData and Cookies of every other
\* client as they were: clone and original share no collection.
C1_NoAliasing ==
    [][\A c \in Allocated :
          c # lastOp'.c => CollectionFields(c)' = CollectionFields(c)]_vars

\* C1 happens: a header was set on a clone whose original has headers, and
\* the two header maps now differ.
C1_Witness ==
    \E d \in Allocated :
        /\ parent[d] # 0
        /\ lastOp = [name |-> "SetCommonHeader", c |-> d]
        /\ clients[parent[d]].Headers # NIL
        /\ MapVal(maps, clients[d].Headers) # MapVal(maps, clients[parent[d]].Headers)

----------------------------------------------------------------------------
(* The pipeline claims *)

IsPrefix(a, b) == Len(a) <= Len(b) /\ a = SubSeq(b, 1, Len(a))

\* the stages call k ran in its request loops, and in its response loop
RequestStagesRun(k) ==
    LET evs == SelectSeq(calls[k].trace,
                         LAMBDA x : x.ev \in {"udBeforeRequest", "beforeRequest"})
    IN [j \in 1..Len(evs) |-> evs[j].f]

ResponseStagesRun(k) ==
    LET evs == SelectSeq(calls[k].trace, LAMBDA x : x.ev = "afterResponse")
    IN [j \in 1..Len(evs) |-> evs[j].f]

Returned(k) == calls[k].pc = "return"

\* C2: the request stages a call runs are, in order, the stages registered on
\* its client beforehand and then the built-in request stages; the response
\* stages it runs are the built-in response stages and then the registered
\* ones; a call that returns without error has run all of them.
C2_StageOrder ==
    \A k \in Calls :
        LET req  == calls[k].regReq \o BuiltinRequestStages
            resp == BuiltinResponseStages \o calls[k].regResp
        IN /\ IsPrefix(RequestStagesRun(k), req)
           /\ IsPrefix(ResponseStagesRun(k), resp)
           /\ Returned(k) /\ calls[k].err = NoError
                  => RequestStagesRun(k) = req /\ ResponseStagesRun(k) = resp

\* C2 happens: a call with two different registered request stages and a
\* registered response stage has returned without error.
C2_Witness ==
    \E k \in Calls :
        /\ Returned(k) /\ calls[k].err = NoError
        /\ calls[k].regReq = <<"u2", "u1">>
        /\ calls[k].regResp = <<"u1">>

\* the event j of call k is a failure that ended the call: nothing ran after
\* it, and the call returned its error
EndedCall(k, j) ==
    /\ j = Len(calls[k].trace)
    /\ Returned(k)
    /\ calls[k].err = calls[k].trace[j].ret

\* C3: a request stage that returns an error is the last thing the call runs
\* (no later stage, no setupRequest, no transport, no response stage), and
\* the call returns that error.
C3_RequestStageFailFast ==
    \A k \in Calls : \A j \in 1..Len(calls[k].trace) :
        /\ calls[k].trace[j].ev \in {"udBeforeRequest", "beforeRequest"}
        /\ calls[k].trace[j].ret # NoError
        => EndedCall(k, j)

\* C3 happens: the first of two registered request stages returned an error.
C3_Witness ==
    \E k \in Calls :
        /\ Len(calls[k].regReq) = 2
        /\ Len(calls[k].trace) = 1
        /\ calls[k].trace[1].ret # NoError
        /\ Returned(k)

\* C4: a response stage that returns an error is the last thing the call
\* runs and the call returns that error; a failed auto-read of the body is
\* the last thing the call runs (no response stage) and its error is returned.
C4_ResponseFailFast ==
    \A k \in Calls : \A j \in 1..Len(calls[k].trace) :
        /\ calls[k].trace[j].ev \in {"afterResponse", "autoRead"}
        /\ calls[k].trace[j].ret # NoError
        => EndedCall(k, j)

\* C4 happens: the first built-in response stage returned an error while a
\* registered response stage was still to run.
C4_Witness ==
    \E k \in Calls :
        /\ Returned(k)
        /\ Len(calls[k].regResp) > 0
        /\ ResponseStagesRun(k) = <<"parseResponseBody">>
        /\ calls[k].err # NoError

\* C5: a call invokes the transport at most once; a transport error is the
\* last thing the call runs (no body read, no response stage) and is
\* returned as it is.
C5_TransportOnceVerbatim ==
    \A k \in Calls :
        /\ Len(SelectSeq(calls[k].trace, LAMBDA x : x.ev = "transport")) <= 1
        /\ \A j \in 1..Len(calls[k].trace) :
               /\ calls[k].trace[j].ev = "transport"
               /\ calls[k].trace[j].ret # NoError
               => EndedCall(k, j)

\* C5 happens: the transport returned an error to a call.
C5_Witness ==
    \E k \in Calls :
        /\ Returned(k)
        /\ calls[k].trace[Len(calls[k].trace)].ev = "transport"
        /\ calls[k].err # NoError

----------------------------------------------------------------------------
(* The redirect claims.  Hop n of a call is the n-th redirect the server   *)
(* answers with: the n-th time the http client asks CheckRedirect.         *)

\* the hops of call k decided by the default check C() installs
DefaultHops(k) ==
    {n \in 1..Len(calls[k].hops) : calls[k].hops[n].check.kind = "default"}

\* C6 as stated: under the default check hops 1 to 10 are allowed and hop 11
\* is the first one rejected.
C6_AsStated ==
    \A k \in Calls : \A n \in DefaultHops(k) :
        (calls[k].hops[n].err = NoError) <=> (n <= 10)

\* C6, amended: under the default check hops 1 to 9 are allowed and hop 10
\* is the first one rejected; the rejection ends the exchange with that error.
C6_DefaultRedirectCap ==
    \A k \in Calls : \A n \in DefaultHops(k) :
        /\ (calls[k].hops[n].err = NoError) <=> (n <= 9)
        /\ calls[k].hops[n].err # NoError
              => /\ n = Len(calls[k].hops)
                 /\ Returned(k)
                 /\ calls[k].err = calls[k].hops[n].err

\* C6 happens: the default check has rejected the tenth redirect of a call.
C6_Witness ==
    \E k \in Calls :
        /\ Len(calls[k].hops) = 10
        /\ 10 \in DefaultHops(k)
        /\ calls[k].err = <<"stopped after 10 redirects">>
        /\ Returned(k)

\* the non-nil policies of ps, in order
NonNil(ps) == SelectSeq(ps, LAMBDA f : f # NilPolicy)

\* the position in ps of the first policy that rejects at via, or 0
FirstRejecting(ps, via) ==
    IF \E i \in 1..Len(ps) : via \in ps[i].rejects
    THEN CHOOSE i \in 1..Len(ps) :
            via \in ps[i].rejects /\ \A j \in 1..(i - 1) : via \notin ps[j].rejects
    ELSE 0

\* C7: on every hop decided by the policies of SetRedirectPolicy, the non-nil
\* policies are called in argument order up to and including the first that
\* returns an error, that error is the hop's decision (nil if there is
\* none), and a rejected hop ends the exchange with that error.
C7_PolicyOrderShortCircuit ==
    \A k \in Calls : \A n \in 1..Len(calls[k].hops) :
        LET hop == calls[k].hops[n]
            ps  == NonNil(hop.check.policies)
            i   == FirstRejecting(ps, hop.via)
            called == IF i = 0 THEN ps ELSE SubSeq(ps, 1, i)
        IN hop.check.kind = "policies"
           => /\ hop.via = n
              /\ hop.evaluated = [j \in 1..Len(called) |-> called[j].name]
              /\ hop.err = IF i = 0 THEN NoError
                           ELSE <<"policy error", ps[i].name, hop.via>>
              /\ hop.err # NoError
                    => /\ n = Len(calls[k].hops)
                       /\ Returned(k)
                       /\ calls[k].err = hop.err

\* C7 happens: of two policies that both reject hop 2, the first was called
\* and ended the exchange at hop 2 after hop 1 was allowed.
C7_Witness ==
    \E k \in Calls :
        /\ Len(calls[k].hops) = 2
        /\ calls[k].hops[2].check.policies = <<From2, At2>>
        /\ calls[k].hops[1].err = NoError
        /\ calls[k].hops[2].err # NoError
        /\ Returned(k)

----------------------------------------------------------------------------
(* The payload, header and URL claims *)

RanStage(k, f) == \E j \in 1..Len(calls[k].trace) : calls[k].trace[j].f = f

\* C8: once parseRequestBody has run for a request sent with a body, the body
\* is dropped exactly when the method is HEAD or OPTIONS, or GET with the
\* client's AllowGetMethodPayload off; for HEAD and OPTIONS it is dropped
\* whatever the flag was set to, for any method but these three it is kept.
C8_PayloadForbid ==
    \A k \in Calls :
        LET r == requests[calls[k].r]
            dropped == ~r.RawRequest.Body
        IN RanStage(k, "parseRequestBody")
           => /\ r.method \in {"HEAD", "OPTIONS"} => dropped
              /\ r.method \notin {"GET", "HEAD", "OPTIONS"} => ~dropped
              /\ r.method = "GET" /\ ~Returned(k)
                    => (dropped <=> ~clients[calls[k].c].AllowGetMethodPayload)

\* C8 happens: a GET was sent with its body after the flag was switched on.
C8_Witness ==
    \E k \in Calls :
        /\ RanStage(k, "parseRequestBody")
        /\ requests[calls[k].r].method = "GET"
        /\ clients[calls[k].c].AllowGetMethodPayload
        /\ requests[calls[k].r].RawRequest.Body
        /\ ~Returned(k)

\* C9: the header the transport is given holds, for a key the request set,
\* only the request's values, and for a key only the client set, the
\* client's values.
C9_RequestHeaderWins ==
    \A k \in Calls :
        RanStage(k, "httpClient.Do") /\ ~Returned(k)
        => \A key \in Keys :
              requests[calls[k].r].RawRequest.Header[key] =
                 IF calls[k].ownHeaders[key] # <<>> THEN calls[k].ownHeaders[key]
                 ELSE MapVal(maps, clients[calls[k].c].Headers)[key]

\* C9 happens: client X-A: 1, request X-A: 2, and X-A: 2 is dispatched.
C9_Witness ==
    \E k \in Calls :
        /\ RanStage(k, "httpClient.Do") /\ ~Returned(k)
        /\ MapVal(maps, clients[calls[k].c].Headers)["X-A"] = <<"1">>
        /\ calls[k].ownHeaders["X-A"] = <<"2">>
        /\ requests[calls[k].r].RawRequest.Header["X-A"] = <<"2">>

\* the host without its last character when that is a colon
WithoutTrailingColon(host) ==
    IF host # <<>> /\ host[Len(host)] = ":" THEN SubSeq(host, 1, Len(host) - 1)
    ELSE host

\* C10: after setRequestURL of a URL that parses, RawRequest.URL.Host and
\* RawRequest.Host are both the URL's host, less the colon of an empty port.
C10_EmptyPortRemoved ==
    \A k \in Calls :
        LET r == requests[calls[k].r]
        IN RanStage(k, "setupRequest") /\ ~Parse(r.URL).err
           => /\ r.RawRequest.URL = <<WithoutTrailingColon(r.URL.host)>>
              /\ r.RawRequest.Host = WithoutTrailingColon(r.URL.host)

\* C10 happens: a request to the host "h:" was set up with the host "h".
C10_Witness ==
    \E k \in Calls :
        /\ RanStage(k, "setupRequest")
        /\ requests[calls[k].r].URL = [wellFormed |-> TRUE, host |-> <<"h", ":">>]
        /\ requests[calls[k].r].RawRequest.Host = <<"h">>

----------------------------------------------------------------------------
\* the events of kind ev in the trace of call k
EventsOf(k, ev) == {j \in 1..Len(calls[k].trace) : calls[k].trace[j].ev = ev}

\* the transport of call k has returned a response
TransportSucceeded(k) ==
    /\ calls[k].resp.Response
    /\ \E j \in EventsOf(k, "transport") : calls[k].trace[j].ret = NoError

\* the auto-read applies to call k: neither flag was set when the transport
\* returned
AutoReadApplies(k) ==
    /\ ~calls[k].disabled
    /\ ~requests[calls[k].r].isSaveResponse

\* C11: when the transport succeeded and neither disableAutoReadResponse nor
\* isSaveResponse is set, do reads the body exactly once, right after the
\* transport returned: before every response stage and before do returns;
\* the stream itself is read once, whatever the stages do afterwards.
C11_AutoReadOnce ==
    \A k \in Calls :
        TransportSucceeded(k) /\ AutoReadApplies(k) /\ calls[k].pc # "autoRead" =>
            /\ Cardinality(EventsOf(k, "autoRead")) = 1
            /\ \A j \in EventsOf(k, "autoRead") :
                   /\ calls[k].trace[j - 1].ev = "transport"
                   /\ \A i \in EventsOf(k, "afterResponse") : j < i
            /\ calls[k].body.reads = 1
            /\ calls[k].body.unread = <<>>
            /\ calls[k].err = NoError => /\ calls[k].body.buffered
                                         /\ calls[k].body.buf = calls[k].body.delivered

\* C11 happens: a call with the auto-read has run it, then both built-in
\* response stages, and returned a non-empty buffered body.
C11_Witness ==
    \E k \in Calls :
        /\ AutoReadApplies(k) /\ Returned(k) /\ calls[k].err = NoError
        /\ Cardinality(EventsOf(k, "autoRead")) = 1
        /\ Cardinality(EventsOf(k, "afterResponse")) = 2
        /\ calls[k].body.buf = <<"b1", "b2">>

\* C12 as stated: a call that returned a response with auto-read disabled
\* or with the request marked isSaveResponse has left the stream unread.
C12_AsStated ==
    \A k \in Calls :
        Returned(k) /\ calls[k].err = NoError /\ ~AutoReadApplies(k) /\ calls[k].got = <<>> =>
            calls[k].body.unread = calls[k].body.delivered

\* C12: do never runs its auto-read when auto-read is disabled or the request
\* is marked isSaveResponse.  With auto-read disabled and the request not
\* marked, do returns with the stream unread and the caller's read yields the
\* bytes delivered; with the request marked, the download stage has streamed
\* the delivered bytes to the file and the stream is at its end.
C12_NoAutoRead ==
    \A k \in Calls :
        ~AutoReadApplies(k) =>
            /\ EventsOf(k, "autoRead") = {}
            /\ Returned(k) /\ calls[k].err = NoError =>
                  IF requests[calls[k].r].isSaveResponse
                  THEN /\ calls[k].body.file = calls[k].body.delivered
                       /\ calls[k].body.unread = <<>>
                       /\ calls[k].got \in {<<>>, << <<>> >>}
                  ELSE /\ calls[k].got = <<>> => /\ calls[k].body.reads = 0
                                                 /\ calls[k].body.unread = calls[k].body.delivered
                       /\ calls[k].got \in {<<>>, <<calls[k].body.delivered>>}

\* C12 happens: with auto-read disabled the caller has read, after do
\* returned, the two bytes the transport delivered.
C12_Witness ==
    \E k \in Calls :
        /\ calls[k].disabled
        /\ ~requests[calls[k].r].isSaveResponse
        /\ Returned(k) /\ calls[k].body.reads = 1
        /\ calls[k].got = << <<"b1", "b2">> >>

----------------------------------------------------------------------------
\* C13: after a call of SetProxyURL, SetCommonQueryString, SetCertFromFile,
\* SetRootCertsFromFile, SetRootCertFromString or EnableDumpToFile with an
\* invalid input, every field of the client and of its transport is as it
\* was before the call.
C13_ConfigErrorUnchanged ==
    "invalid" \in DOMAIN lastOp /\ lastOp.invalid =>
        View(Heap, lastOp.c) = lastOp.before

----------------------------------------------------------------------------
\* the configuration fields of client c, by value
ConfigOf(st, c) ==
    LET v == View(st, c)
    IN [BaseURL |-> v.BaseURL, scheme |-> v.scheme, Headers |-> v.Headers,
        Cookies |-> v.Cookies, PathParams |-> v.PathParams,
        QueryParams |-> v.QueryParams, FormData |-> v.FormData,
        DebugLog |-> v.DebugLog, AllowGetMethodPayload |-> v.AllowGetMethodPayload,
        trace |-> v.trace, outputDirectory |-> v.outputDirectory,
        disableAutoReadResponse |-> v.disableAutoReadResponse,
        beforeRequest |-> v.beforeRequest, udBeforeRequest |-> v.udBeforeRequest,
        afterResponse |-> v.afterResponse,
        jsonMarshal |-> v.jsonMarshal, jsonUnmarshal |-> v.jsonUnmarshal,
        xmlMarshal |-> v.xmlMarshal, xmlUnmarshal |-> v.xmlUnmarshal]

\* the last call was a Clone, by either definition
JustCloned == lastOp.name \in {"Clone", "Clone2"}

\* the client the last Clone returned
TheClone == Len(clients)

\* C14: immediately after D = C.Clone(), every configuration field of D
\* (BaseURL, scheme, Headers, Cookies, PathParams, QueryParams, FormData,
\* DebugLog, AllowGetMethodPayload, trace, outputDirectory,
\* disableAutoReadResponse, the three stage lists and the four codec
\* functions) equals the field of C by value.
C14_CloneEqualsOriginal ==
    JustCloned => ConfigOf(Heap, TheClone) = ConfigOf(Heap, lastOp.c)

\* the same of the first definition of Clone alone
CloneEqualsOriginal ==
    lastOp.name = "Clone" => ConfigOf(Heap, TheClone) = ConfigOf(Heap, lastOp.c)

----------------------------------------------------------------------------
\* the user request stages of every client are those it had when it was
\* made, followed by those registered on it since, in order
UserRequestStagesKept ==
    \A c \in Allocated : Elems(arrays, clients[c].udBeforeRequest) = userReq[c]

\* C15: after D = C.Clone(), whatever OnBeforeRequest and OnAfterResponse
\* calls follow on C and on D, the stage lists of each client are the
\* stages C had when it was cloned followed by the stages registered on
\* that client since, in order: a registration on one neither adds to nor
\* overwrites a list of the other.
C15_StageListsIndependent ==
    /\ UserRequestStagesKept
    /\ \A c \in Allocated :
          /\ Elems(arrays, clients[c].beforeRequest) = BuiltinRequestStages
          /\ Elems(arrays, clients[c].afterResponse) =
                 BuiltinResponseStages \o userResp[c]

----------------------------------------------------------------------------
\* the cookie jar of client c, NIL when its http client has none
JarOf(c) == httpClients[clients[c].httpClient].Jar

\* no two clients have the same http client, transport or cookie jar
DistinctObjects ==
    \A c, d \in Allocated :
        c # d => /\ clients[c].httpClient # clients[d].httpClient
                 /\ clients[c].t # clients[d].t
                 /\ JarOf(c) # NIL => JarOf(c) # JarOf(d)

\* the step is a call on one client of SetTimeout, SetCookieJar, SetProxy
\* or DisableKeepAlives, or a cookie stored by a call through it
TransportStep ==
    /\ ops' = ops + 1
    /\ lastOp'.name \in {"SetTimeout", "SetCookieJar", "SetProxy",
                          "DisableKeepAlives", "JarSetCookies"}

\* a step on one client leaves every other client as it was
OthersUnchanged ==
    \A c \in Allocated : c # lastOp'.c => View(Heap, c)' = View(Heap, c)

\* C16: a client and its clone have distinct http clients, transports and
\* cookie jars, and SetTimeout, SetCookieJar, SetProxy, DisableKeepAlives
\* or a cookie stored in the jar through one of them changes nothing that
\* the other one sees.
C16_NoSharedMutableState ==
    /\ []DistinctObjects
    /\ [][TransportStep => OthersUnchanged]_vars

\* the same without the cookie jar
SharedOnlyJar ==
    [][TransportStep /\ lastOp'.name # "JarSetCookies" =>
         \A c \in Allocated : c # lastOp'.c =>
             [View(Heap, c)' EXCEPT !.Jar = <<>>] = [View(Heap, c) EXCEPT !.Jar = <<>>]]_vars

----------------------------------------------------------------------------
\* client c dumps: its transport has a dumper
Dumping(c) == transports[clients[c].t].dump # <<>>

\* the DumpOptions object that the dumper of client c uses
DumperOptions(c) == transports[clients[c].t].dump[1].DumpOptions

\* the step is a call of a dump setter on one client
DumpStep ==
    /\ ops' = ops + 1
    /\ lastOp'.name \notin {"Clone", "Clone2"}

\* C17: with no sink handed to both of them, two clients of which one is a
\* clone of the other never dump to the same sink nor use, as client or
\* as dumper, the same DumpOptions object, whether dump was enabled
\* before or after cloning; and a dump setter called on one of them
\* changes neither the dump output nor the flags of the other.
C17_DumpNotShared ==
    /\ [](\A c, d \in Allocated : c # d =>
            /\ clients[c].dumpOptions # NIL =>
                   clients[c].dumpOptions # clients[d].dumpOptions
            /\ Dumping(c) /\ Dumping(d) =>
                   /\ DumperOptions(c) # DumperOptions(d)
                   /\ dumpOpts[DumperOptions(c)].Output # dumpOpts[DumperOptions(d)].Output)
    /\ [][DumpStep => OthersUnchanged]_vars

\* the same without the sink
DumpOptionsNotShared ==
    /\ [](\A c, d \in Allocated : c # d =>
            /\ clients[c].dumpOptions # NIL =>
                   clients[c].dumpOptions # clients[d].dumpOptions
            /\ Dumping(c) /\ Dumping(d) => DumperOptions(c) # DumperOptions(d))
    /\ [][DumpStep => OthersUnchanged]_vars

----------------------------------------------------------------------------
\* the last call was a setter that enables dump
DumpEnabled ==
    /\ "refs" \in DOMAIN lastOp
    /\ \/ lastOp.name = "EnableDump" /\ lastOp.arg = TRUE
       \/ lastOp.name \in {"EnableDumpTo", "EnableDumpAsync", "EnableDumpAll",
                            "EnableDumpOnlyHeader", "EnableDumpNoResponseBody"}

\* C18: after a call of EnableDump(true), EnableDumpTo, EnableDumpAsync or
\* a preset, the client dumps; if the call repeats the call before it, the
\* client is as it was before the call; a client that had a DumpOptions
\* object before the call still has that object, and a transport that had
\* a dumper still has that dumper, not a newly started one.
C18_DumpEnableIdempotent ==
    DumpEnabled =>
        /\ Dumping(lastOp.c)
        /\ clients[lastOp.c].dumpOptions # NIL
        /\ lastOp.again => View(Heap, lastOp.c) = lastOp.before
        /\ lastOp.refs.dumpOptions # NIL =>
               clients[lastOp.c].dumpOptions = lastOp.refs.dumpOptions
        /\ lastOp.refs.dump # <<>> =>
               transports[clients[lastOp.c].t].dump = lastOp.refs.dump

\* C18 happens: EnableDumpAsync was called twice in a row on a client that
\* had neither DumpOptions nor a dumper; it dumps asynchronously through
\* the first dumper of its transport over the DumpOptions of the client.
C18_Witness ==
    /\ DumpEnabled /\ lastOp.name = "EnableDumpAsync" /\ lastOp.again
    /\ lastOp.refs.dump # <<>>
    /\ View(Heap, lastOp.c).dump[1].options.Async
    /\ View(Heap, lastOp.c).dump[1].ofClient
    /\ View(Heap, lastOp.c).dump[1].id = 1

----------------------------------------------------------------------------
\* the setters that add their argument to what the client holds
Accumulating ==
    {"SetCommonCookies", "SetCommonQueryString", "SetCommonFormDataFromValues",
     "SetCerts", "SetCertFromFile", "OnBeforeRequest", "OnAfterResponse"}

\* the last call was a setter called with the argument, on the client, of
\* the call before it
CalledAgain == "again" \in DOMAIN lastOp /\ lastOp.again

\* C19: a setter applied twice in a row with the same argument leaves the
\* client as applying it once does, whichever setter it is.
C19_SettersIdempotent == CalledAgain => View(Heap, lastOp.c) = lastOp.before

\* the same of the setters that assign
AssigningSettersIdempotent ==
    CalledAgain /\ lastOp.name \notin Accumulating =>
        View(Heap, lastOp.c) = lastOp.before

----------------------------------------------------------------------------
\* the step is a call of a package-level setter
WrapperStep ==
    /\ ops' = ops + 1
    /\ lastOp'.name \in {"SetBaseURL", "SetCommonHeader", "SetCommonCookies",
                          "EnableDebugLog", "SetTimeout"}

\* C20: the default client is always a client.  SetDefaultClient(nil)
\* leaves it unchanged and SetDefaultClient(c) makes c the default client,
\* and neither changes a client.  A package-level setter acts as the
\* method of the client that is the default at the call, and leaves the
\* default and every other client, a former default among them, as they
\* were; the request of the package-level R() is a request of the default
\* client.
C20_DefaultClient ==
    /\ [](DefaultClient(Heap) \in Allocated)
    /\ [][
          /\ lastOp'.name = "SetDefaultClient" =>
                /\ DefaultClient(Heap)' = IF lastOp'.arg = NIL THEN DefaultClient(Heap)
                                          ELSE lastOp'.arg
                /\ \A c \in Allocated : View(Heap, c)' = View(Heap, c)
          /\ WrapperStep =>
                /\ DefaultClient(Heap)' = DefaultClient(Heap)
                /\ View(Heap, DefaultClient(Heap))' =
                       View(Apply(Heap, DefaultClient(Heap),
                                  [name |-> lastOp'.name, arg |-> lastOp'.arg]),
                            DefaultClient(Heap))
                /\ \A c \in Allocated :
                       c # DefaultClient(Heap) => View(Heap, c)' = View(Heap, c)
          /\ Len(requests') > Len(requests) =>
                requests'[Len(requests')].client = DefaultClient(Heap)
       ]_vars

\* C20 happens: after SetDefaultClient(c2) the package-level SetBaseURL has
\* set the base URL of c2, and the first default client has none.
C20_Witness ==
    /\ DefaultClient(Heap) = 2
    /\ lastOp.name = "SetBaseURL" /\ lastOp.c = 2
    /\ View(Heap, 2).BaseURL = <<"h">>
    /\ View(Heap, 1).BaseURL = <<>>

----------------------------------------------------------------------------
\* the Request of a call as it was sent
Sent(call) ==
    [NewRequest(call.c) EXCEPT !.method = "GET", !.URL = DefaultURL, !.body = TRUE,
                               !.RawRequest.Method = "GET",
                               !.Headers = call.ownHeaders]

\* the Request r after the steps of the trace, run one after another with
\* no other call at work
RECURSIVE Replay(_, _, _)
Replay(st, r, trace) ==
    IF trace = <<>> THEN r
    ELSE LET e == Head(trace)
             r1 == IF e.ev \in {"udBeforeRequest", "beforeRequest"}
                   THEN RunRequestStage(st, e.f, r.client, r)
                   ELSE IF e.ev = "setupRequest" THEN setupRequest(st, r)
                   ELSE IF e.ev = "transport" THEN [r EXCEPT !.StartTime = TRUE]
                   ELSE r
         IN Replay(st, r1, Tail(trace))

\* the error a call returns after the steps of its trace: the first error
\* of a step
RECURSIVE FirstError(_)
FirstError(trace) ==
    IF trace = <<>> THEN NoError
    ELSE IF Head(trace).ret # NoError THEN Head(trace).ret
    ELSE FirstError(Tail(trace))

\* a step of a call of do
DoStep == calls' # calls /\ Len(calls') = Len(calls)

----------------------------------------------------------------------------
\* the calls that handed the Request r to the transport
Dispatches(r) ==
    {k \in Calls : calls[k].r = r /\ \E i \in 1..Len(calls[k].trace) :
                                        calls[k].trace[i].ev = "transport"}

\* C22: a Request is handed to the transport by one call at most, and its
\* RawRequest holds each request-level header value once, however often
\* do was called with it.
C22_SingleUse ==
    \A r \in Requests :
        /\ Cardinality(Dispatches(r)) <= 1
        /\ \A key \in Keys :
              Len(requests[r].RawRequest.Header[key]) <= Len(requests[r].Headers[key])

\* the first clause of C22 alone
DispatchedOnce == \A r \in Requests : Cardinality(Dispatches(r)) <= 1

\* the second clause of C22 alone
HeadersAddedOnce ==
    \A r \in Requests : \A key \in Keys :
        Len(requests[r].RawRequest.Header[key]) <= Len(requests[r].Headers[key])

----------------------------------------------------------------------------
\* the cookies of client c as a call through it sends them: the value of
\* each
CookiesSeen(st, c) ==
    [i \in 1..st.clients[c].Cookies.len |->
        st.cookieObjs[Elems(st.arrays, st.clients[c].Cookies)[i]]]

\* C23: a change of a field of a cookie held in the Cookies of one client
\* changes no cookie held in the Cookies of another client, be it its
\* clone or the client it was cloned from.
C23_CookiesDeepCopied ==
    [][lastOp'.name = "SetCookieValue" =>
          \A c \in Allocated :
              c # lastOp'.c => CookiesSeen(Heap, c)' = CookiesSeen(Heap, c)]_vars

----------------------------------------------------------------------------
\* the last call was EnableDumpToFile, by one of the definitions in names
DumpToFileCalled(names) == "invalid" \in DOMAIN lastOp /\ lastOp.name \in names

\* after EnableDumpToFile by one of the definitions in names: with the file
\* created, a dumper runs and writes to the file; with no file, the
\* dumper and the dump options are as they were
DumpToFileDone(names) ==
    DumpToFileCalled(names) =>
        IF lastOp.invalid
        THEN /\ View(Heap, lastOp.c).dump = lastOp.before.dump
             /\ View(Heap, lastOp.c).dumpOptions = lastOp.before.dumpOptions
        ELSE /\ Dumping(lastOp.c)
             /\ dumpOpts[DumperOptions(lastOp.c)].Output = lastOp.arg.name

\* C24: after EnableDumpToFile, by either definition, with a file that
\* could be created, a dumper runs on the transport of the client and its
\* output is the file; with a file that could not be created the dumper
\* and the dump options are as they were before the call.
C24_DumpToFile == DumpToFileDone({"EnableDumpToFile", "EnableDumpToFile2"})

\* the same of the first definition alone
DumpToFileFirst == DumpToFileDone({"EnableDumpToFile"})

\* the same of the first definition, on a client that was made by C()
DumpToFileFirstNoClone == parent[lastOp.c] = 0 => DumpToFileDone({"EnableDumpToFile"})

----------------------------------------------------------------------------
(* SpecResult: one request is sent with a URL that parses or does not, on  *)
(* a client whose debug log is on or off; every stage, the transport and   *)
(* the read of the body succeed or fail                                    *)

MaxResultOps == 2

InitResult == Start(MaxResultOps)

NextResult ==
    \/ Setter(CallsOf("EnableDebugLog", BOOLEAN))
    \/ \E c \in Allocated : R(c)
    \/ \E r \in Requests, u \in {DefaultURL, BadURL} : Send(r, "GET", u)
    \/ \E k \in Calls, fails \in BOOLEAN : DoRequestStage(k, fails)
    \/ \E k \in Calls : DoDispatch(k)
    \/ \E k \in Calls, fails \in BOOLEAN : TransportReturn(k, fails)
    \/ \E k \in Calls, fails \in BOOLEAN : DoAutoRead(k, fails)
    \/ \E k \in Calls, fails \in BOOLEAN : DoResponseStage(k, fails)

SpecResult == InitResult /\ [][NextResult]_vars

\* httpClient.Do returned to the call, and returned no error
TransportOk(call) ==
    /\ call.pc # "Do"
    /\ \E i \in DOMAIN call.trace :
          call.trace[i].ev = "transport" /\ call.trace[i].ret = NoError

\* both request loops of the call ran to their end with no error
RequestStagesSucceeded(call) ==
    /\ call.pc \notin {"start", "udBeforeRequest", "beforeRequest"}
    /\ \A i \in DOMAIN call.trace :
          call.trace[i].ev \in {"udBeforeRequest", "beforeRequest"}
              => call.trace[i].ret = NoError

\* C25: the Response of a call is a Response value from the first statement
\* of do on; when do has returned, its Request and its raw response are
\* set exactly when httpClient.Do returned no error, and both are unset
\* when a request stage or the transport failed; StartTime of the Request
\* is set only when both request loops ran to their end with no error.
C25_ResponseFields ==
    \A k \in Calls :
        LET call == calls[k]
        IN /\ call.resp \in [Request : {NIL, call.r}, Response : BOOLEAN]
           /\ call.pc = "return" =>
                 /\ (call.resp.Request = call.r /\ call.resp.Response)
                        <=> TransportOk(call)
                 /\ ~TransportOk(call) =>
                        call.resp = [Request |-> NIL, Response |-> FALSE]
           /\ requests[call.r].StartTime => RequestStagesSucceeded(call)

\* a call returned a Response with its Request and raw response set, and
\* the Request has its StartTime
C25_Witness ==
    \E k \in Calls :
        /\ calls[k].pc = "return"
        /\ TransportOk(calls[k])
        /\ calls[k].resp = [Request |-> calls[k].r, Response |-> TRUE]
        /\ requests[calls[k].r].StartTime

\* a request stage failed, and the call returned a Response with nothing set
RequestStageFailedSeen ==
    \E k \in Calls :
        /\ calls[k].pc = "return"
        /\ ~RequestStagesSucceeded(calls[k])
        /\ calls[k].resp = [Request |-> NIL, Response |-> FALSE]
        /\ ~requests[calls[k].r].StartTime

\* the transport failed, and the call returned a Response with nothing set
TransportFailedSeen ==
    \E k \in Calls :
        /\ calls[k].pc = "return"
        /\ \E i \in DOMAIN calls[k].trace :
              calls[k].trace[i].ev = "transport" /\ calls[k].trace[i].ret # NoError
        /\ calls[k].resp = [Request |-> NIL, Response |-> FALSE]

----------------------------------------------------------------------------
\* setupRequest has run in call k, on a Request whose URL does not parse
SetupWithBadURL(k) ==
    /\ Parse(requests[calls[k].r].URL).err
    /\ \E i \in DOMAIN calls[k].trace : calls[k].trace[i].ev = "setupRequest"

\* the parse error of call k was dropped and the call went on: URL and Host
\* of the RawRequest are as R() made them, setupRequest gave no error to
\* do, the trace flag was taken from the client, and httpClient.Do was
\* called
ParseErrorDropped(k) ==
    LET call == calls[k]
        r == requests[call.r]
    IN /\ r.RawRequest.URL = NewRequest(r.client).RawRequest.URL
       /\ r.RawRequest.Host = NewRequest(r.client).RawRequest.Host
       /\ \A i \in DOMAIN call.trace :
             call.trace[i].ev = "setupRequest" => call.trace[i].ret = NoError
       /\ r.trace = clients[r.client].trace
       /\ \E i \in DOMAIN call.trace : call.trace[i].ev = "transport"

\* C26: when the URL of the Request does not parse, setupRequest leaves
\* RawRequest.URL and RawRequest.Host as they were, do does not return the
\* parse error, and the call goes on to the header and cookie copy, the
\* trace setup and httpClient.Do.
C26_ParseErrorDiscarded ==
    \A k \in Calls : SetupWithBadURL(k) => ParseErrorDropped(k)

\* the same of the calls made while the debug log of the client is off
ParseErrorDiscardedLogOff ==
    \A k \in Calls :
        SetupWithBadURL(k) /\ calls[k].pc # "panic" => ParseErrorDropped(k)

\* a call with a URL that does not parse was handed to httpClient.Do
BadURLDispatched ==
    \E k \in Calls : SetupWithBadURL(k) /\ ParseErrorDropped(k)

----------------------------------------------------------------------------
\* the dumper of client c, when one runs, uses the DumpOptions object that
\* c.dumpOptions points at
DumperUsesClientOptions(c) ==
    Dumping(c) => DumperOptions(c) = clients[c].dumpOptions

\* C27: after any sequence of EnableDump, dump presets, EnableDumpTo,
\* EnableDumpAsync, SetDumpOptions and Clone, the options used by a running
\* dumper of a client are the very object that the dumpOptions of that
\* client points at.
C27_DumperOptionsIdentity == \A c \in Allocated : DumperUsesClientOptions(c)

\* the same of the clients made by C(), not by Clone
DumperOptionsIdentityNoClone ==
    \A c \in Allocated : parent[c] = 0 => DumperUsesClientOptions(c)

\* a client made by C() runs a dumper after SetDumpOptions replaced its options
DumperRepointed ==
    /\ lastOp.name = "SetDumpOptions"
    /\ parent[lastOp.c] = 0
    /\ Dumping(lastOp.c)
    /\ lastOp.before.dumpOptions # View(Heap, lastOp.c).dumpOptions

----------------------------------------------------------------------------
\* the request stages of client c are the built-in four, and its response
\* stages begin with the built-in two
BuiltinStagesOf(c) ==
    LET after == Elems(arrays, clients[c].afterResponse)
    IN /\ Elems(arrays, clients[c].beforeRequest) = BuiltinRequestStages
       /\ Len(after) >= Len(BuiltinResponseStages)
       /\ SubSeq(after, 1, Len(BuiltinResponseStages)) = BuiltinResponseStages

\* C28: in every client reached from C() by setters and Clone calls, the
\* built-in request stages are exactly parseRequestURL, parseRequestHeader,
\* parseRequestCookie, parseRequestBody, and the response stages start with
\* parseResponseBody, handleDownload, in that order.
C28_BuiltinStagesKept == \A c \in Allocated : BuiltinStagesOf(c)

\* the same of the clients made by C(), whatever was registered on them
BuiltinStagesKeptNoClone == \A c \in Allocated : parent[c] = 0 => BuiltinStagesOf(c)

----------------------------------------------------------------------------
(* SpecChain: a client is cloned and the clone is cloned; the debug log is *)
(* switched on and a logger is set on any of them; then requests are sent  *)
(* through them, one call after the other, and the server redirects        *)

MaxChain == 3
MaxChainOps == 3
MaxChainHops == 1

InitChain == Start(MaxChainOps)

NextChain ==
    \/ \E c \in Allocated : calls = <<>> /\ CloneWithin(c, MaxChain)
    \/ calls = <<>> /\ Setter(CallsOf("EnableDebugLog", {TRUE}))
    \/ calls = <<>> /\ Setter(CallsOf("SetLogger", {"userLogger"}))
    \/ \E c \in Allocated : R(c)
    \/ \E r \in Requests : NoCallInFlight /\ Send(r, "GET", DefaultURL)
    \/ \E k \in Calls : DoRequestStage(k, FALSE)
    \/ \E k \in Calls : DoDispatch(k)
    \/ \E k \in Calls : Len(calls[k].hops) < MaxChainHops /\ TransportRedirect(k)
    \/ \E k \in Calls : TransportReturn(k, FALSE)
    \/ \E k \in Calls : DoAutoRead(k, FALSE)
    \/ \E k \in Calls : DoResponseStage(k, FALSE)

SpecChain == InitChain /\ [][NextChain]_vars

\* the redirect check installed on the http client of client c
CheckOf(c) == httpClients[clients[c].httpClient].CheckRedirect

\* the client made by C() from which c descends by Clone calls
RECURSIVE Root(_)
Root(c) == IF parent[c] = 0 THEN c ELSE Root(parent[c])

\* the step is a redirect hop of call k
HopAdded(k) == Len(calls'[k].hops) = Len(calls[k].hops) + 1

\* the hop the step added to call k wrote the debug log line exactly when
\* it was allowed and DebugLog of client b was on, and wrote it to the
\* logger of b
LogDecidedBy(k, b) ==
    LET hop == calls'[k].hops[Len(calls'[k].hops)]
    IN /\ hop.logged <=> (hop.err = NoError /\ clients[b].DebugLog)
       /\ hop.logger = IF hop.logged THEN <<clients[b].log>> ELSE NoLogger

CloneDebugLogIgnored ==
    \E k \in Calls :
        /\ parent[calls[k].c] # 0
        /\ clients[calls[k].c].DebugLog
        /\ Len(calls[k].hops) = 1
        /\ ~calls[k].hops[1].logged

----------------------------------------------------------------------------
(* SpecPolicy: SetRedirectPolicy is called on a client, with no policy,    *)
(* with nil policies or with policies that reject some hops; then requests *)
(* are sent, one call after the other, and the server redirects            *)

MaxPolicyOps == 2

InitPolicy == Start(MaxPolicyOps)

NextPolicy ==
    \/ \E c \in Allocated, ps \in PolicyArgs : calls = <<>> /\ SetRedirectPolicy(c, ps)
    \/ \E c \in Allocated : R(c)
    \/ \E r \in Requests : NoCallInFlight /\ Send(r, "GET", DefaultURL)
    \/ \E k \in Calls : DoRequestStage(k, FALSE)
    \/ \E k \in Calls : DoDispatch(k)
    \/ \E k \in Calls : TransportRedirect(k)
    \/ \E k \in Calls : TransportReturn(k, FALSE)
    \/ \E k \in Calls : DoAutoRead(k, FALSE)
    \/ \E k \in Calls : DoResponseStage(k, FALSE)

SpecPolicy == InitPolicy /\ [][NextPolicy]_vars

\* every non-nil policy of ps returns nil for a history of length via
AllAccept(ps, via) ==
    \A i \in 1..Len(ps) : ps[i] = NilPolicy \/ via \notin ps[i].rejects

\* C30: SetRedirectPolicy with no policy leaves the installed redirect check
\* as it is; with one policy or more it installs a check made of those
\* policies alone, under which a hop is allowed exactly when every non-nil
\* policy returns nil, whatever the length of the history, the tenth hop
\* and later ones included.
C30_PolicyReplacesCheck ==
    /\ [](\A k \in Calls : \A n \in 1..Len(calls[k].hops) :
            LET hop == calls[k].hops[n]
            IN hop.check.kind = "policies" =>
                  /\ Len(hop.check.policies) >= 1
                  /\ (hop.err = NoError) <=> AllAccept(hop.check.policies, n))
    /\ [][\A c \in Allocated, ps \in PolicyArgs :
             SetRedirectPolicy(c, ps) =>
                 IF Len(ps) = 0 THEN httpClients' = httpClients
                 ELSE CheckOf(c)' = [kind |-> "policies", c |-> c, policies |-> ps]]_vars

\* under a list of only nil policies the eleventh redirect of a call was
\* allowed
C30_Witness ==
    \E k \in Calls :
        /\ Len(calls[k].hops) = 11
        /\ calls[k].hops[11].check.policies = <<NilPolicy>>
        /\ calls[k].hops[11].err = NoError

\* SetRedirectPolicy with no policy was called on a client whose check was
\* installed by SetRedirectPolicy, and the check is still that one
ZeroPoliciesKeepCheck ==
    /\ ops = 2
    /\ lastOp.name = "SetRedirectPolicy"
    /\ \E c \in Allocated : CheckOf(c).kind = "policies"

====
